---- MODULE Spec2Model ----
(***************************************************************************)
(* Model of the document notarization pipeline of autenix-frontend:        *)
(*   - document identifiers (src/lib/upload-types.ts),                     *)
(*   - the uploader hook (src/lib/use-document-uploader.ts),               *)
(*   - transaction submission and confirmation polling                     *)
(*     (src/lib/solana/transactions.ts, here src/unnamed/part_004),        *)
(*   - hash / u8 validation (src/lib/solana/notarization-program.ts).      *)
(*                                                                         *)
(* JavaScript values are represented as follows.                           *)
(*   number : a record [k, h]; k = "fin" means the finite value h/2 (so    *)
(*            that x.5 fractions exist), k = "nan" / "inf" / "ninf" are    *)
(*            NaN, +Infinity and -Infinity.                                *)
(*   string : a sequence of one-character strings, where the code looks    *)
(*            at the characters (identifiers, hashes); a TLA+ string where *)
(*            the code only compares it or tests it against a regular      *)
(*            expression (error messages).                                 *)
(*   null / undefined : "none", NullStr or Null, by the type expected.      *)
(***************************************************************************)
EXTENDS Integers, Sequences, FiniteSets, TLC

\* ------------------------------------------------------------------ bounds
\* Number of entries (pipelines) ever staged in one behaviour.
MaxEntries == 2
\* Number of different file contents offered to the uploader.
MaxContents == 1
\* Calls of getSolanaClient, and calls of connect() and disconnect().
MaxClientCalls == 4
MaxWalletCalls == 3
MaxNodes == 2

\* ------------------------------------------------------- program constants
MIN_VERSION == 0
MAX_VERSION == 255
DOCUMENT_HASH_BYTE_LENGTH == 32
HASH_HEX_LENGTH == 64
DEFAULT_MAX_ATTEMPTS == 5
INITIAL_DELAY_MS == 500
MAX_DELAY_MS == 4000
WALLET_REJECTION_CODE == 4001
DEFAULT_INITIAL_VERSION == 1
DEFAULT_HASH_VERSION == 1
INITIAL_PROGRESS == 5
FULL_PROGRESS == 100
DOCUMENT_IDENTIFIER_SEPARATOR == "_"
DISCRIMINATOR_BYTE_LENGTH == 8
U32_BYTE_LENGTH == 4
BYTE_RANGE == 256

None == "none"
\* An absent `code` property, and a null `confirmations` count.
NoCode == -1
NoConfirmations == -1
\* null / undefined where a character string is expected.
NullStr == <<"null">>
\* null where an object is expected.
Null == [null |-> TRUE]

\* ------------------------------------------------------- JavaScript numbers
Fin(h) == [k |-> "fin", h |-> h]
Num(n) == Fin(2 * n)
NaN == [k |-> "nan", h |-> 0]
PosInf == [k |-> "inf", h |-> 0]
NegInf == [k |-> "ninf", h |-> 0]

NumberIsFinite(v) == v.k = "fin"
NumberIsInteger(v) == v.k = "fin" /\ v.h % 2 = 0
NumberIsNaN(v) == v.k = "nan"

\* v < w for JavaScript numbers (false as soon as one side is NaN).
NumLess(v, w) ==
  IF v.k = "nan" \/ w.k = "nan" THEN FALSE
  ELSE IF v.k = "ninf" THEN w.k # "ninf"
  ELSE IF v.k = "inf" THEN FALSE
  ELSE IF w.k = "inf" THEN TRUE
  ELSE IF w.k = "ninf" THEN FALSE
  ELSE v.h < w.h

\* Math.trunc: rounds towards zero (-0 is not distinguished from 0).
MathTrunc(v) ==
  IF v.k # "fin" THEN v
  ELSE IF v.h >= 0 THEN Fin(2 * (v.h \div 2))
  ELSE Fin(-(2 * ((-v.h) \div 2)))

MathMax(v, w) ==
  IF v.k = "nan" \/ w.k = "nan" THEN NaN
  ELSE IF NumLess(v, w) THEN w ELSE v

MathMin(v, w) ==
  IF v.k = "nan" \/ w.k = "nan" THEN NaN
  ELSE IF NumLess(w, v) THEN w ELSE v

\* The integer n such that v = n, for an integral number v.
IntOf(v) == v.h \div 2

IsU8(v) == NumberIsInteger(v) /\ v.h >= 0 /\ v.h <= 2 * MAX_VERSION

\* ----------------------------------------------------------------- strings
DigitChars == <<"0", "1", "2", "3", "4", "5", "6", "7", "8", "9">>
Digits == {DigitChars[i] : i \in 1..10}
DigitValue(c) == (CHOOSE i \in 1..10 : DigitChars[i] = c) - 1
LowerHexLetters == {"a", "b", "c", "d", "e", "f"}
UpperHexLetters == {"A", "B", "C", "D", "E", "F"}
LowerHexChars == Digits \cup LowerHexLetters
HexChars == LowerHexChars \cup UpperHexLetters
WhiteSpace == {" "}

Str1(c) == <<c>>

RECURSIVE NatToString(_)
NatToString(n) ==
  IF n < 10 THEN <<DigitChars[n + 1]>>
  ELSE NatToString(n \div 10) \o <<DigitChars[(n % 10) + 1]>>

\* String(v) / `${v}` for a number.
NumberToString(v) ==
  IF v.k = "nan" THEN <<"N", "a", "N">>
  ELSE IF v.k = "inf" THEN <<"I", "n", "f", "i", "n", "i", "t", "y">>
  ELSE IF v.k = "ninf" THEN <<"-", "I", "n", "f", "i", "n", "i", "t", "y">>
  ELSE LET a == IF v.h < 0 THEN -v.h ELSE v.h
           sign == IF v.h < 0 THEN <<"-">> ELSE <<>>
           frac == IF a % 2 = 1 THEN <<".", "5">> ELSE <<>>
       IN sign \o NatToString(a \div 2) \o frac

RECURSIVE SkipWhiteSpace(_)
SkipWhiteSpace(s) ==
  IF s # <<>> /\ Head(s) \in WhiteSpace THEN SkipWhiteSpace(Tail(s)) ELSE s

RECURSIVE DigitPrefixValue(_, _)
\* Value of the longest prefix of decimal digits of s, continuing from acc.
DigitPrefixValue(s, acc) ==
  IF s # <<>> /\ Head(s) \in Digits
  THEN DigitPrefixValue(Tail(s), 10 * acc + DigitValue(Head(s)))
  ELSE acc

\* Number.parseInt(s, 10): optional white space, optional sign, then the
\* longest run of digits; NaN when there is no digit.
ParseInt10(s) ==
  LET t == SkipWhiteSpace(s)
      neg == t # <<>> /\ Head(t) = "-"
      u == IF t # <<>> /\ Head(t) \in {"-", "+"} THEN Tail(t) ELSE t
  IN IF u = <<>> \/ Head(u) \notin Digits THEN NaN
     ELSE IF neg THEN Num(-DigitPrefixValue(u, 0))
     ELSE Num(DigitPrefixValue(u, 0))

RECURSIVE Split(_, _)
\* s.split(sep) for a one-character separator: the pieces between separators.
Split(s, sep) ==
  IF \A i \in 1..Len(s) : s[i] # sep THEN <<s>>
  ELSE LET p == CHOOSE i \in 1..Len(s) : s[i] = sep /\ \A j \in 1..(i - 1) : s[j] # sep
       IN <<SubSeq(s, 1, p - 1)>> \o Split(SubSeq(s, p + 1, Len(s)), sep)

ToLowerChar(c) ==
  CASE c = "A" -> "a" [] c = "B" -> "b" [] c = "C" -> "c"
    [] c = "D" -> "d" [] c = "E" -> "e" [] c = "F" -> "f"
    [] c = "G" -> "g" [] c = "X" -> "x" [] OTHER -> c

ToLowerCase(s) == [i \in 1..Len(s) |-> ToLowerChar(s[i])]

RECURSIVE TrimEnd(_)
TrimEnd(s) ==
  IF s # <<>> /\ s[Len(s)] \in WhiteSpace THEN TrimEnd(SubSeq(s, 1, Len(s) - 1)) ELSE s

Trim(s) == TrimEnd(SkipWhiteSpace(s))

\* ------------------------------------------------------------ clampVersion
clampVersionNoTrunc(value) ==
  LET normalized == IF NumberIsFinite(value) THEN value ELSE Num(MIN_VERSION)
  IN MathMin(MathMax(normalized, Num(MIN_VERSION)), Num(MAX_VERSION))

clampVersion(value) ==
  LET normalized == IF NumberIsFinite(value) THEN MathTrunc(value) ELSE Num(MIN_VERSION)
  IN MathMin(MathMax(normalized, Num(MIN_VERSION)), Num(MAX_VERSION))

\* ---------------------------------------------------- document identifiers
composeDocumentIdentifier(parts) ==
  parts.notary \o <<DOCUMENT_IDENTIFIER_SEPARATOR>> \o parts.hash
    \o <<DOCUMENT_IDENTIFIER_SEPARATOR>> \o NumberToString(parts.version)

IsHexHash(hash) ==
  Len(hash) = HASH_HEX_LENGTH /\ \A i \in 1..Len(hash) : hash[i] \in HexChars

parseDocumentIdentifierLowercasing(identifier) ==
  LET parts == Split(identifier, DOCUMENT_IDENTIFIER_SEPARATOR)
  IN IF Len(parts) # 3 THEN Null
     ELSE IF parts[1] = <<>> \/ parts[2] = <<>> THEN Null
     ELSE IF ~IsHexHash(parts[2]) THEN Null
     ELSE LET version == ParseInt10(parts[3])
          IN IF ~NumberIsFinite(version) \/ NumLess(version, Num(0))
                  \/ NumLess(Num(255), version)
             THEN Null
             ELSE [notary |-> parts[1], hash |-> ToLowerCase(parts[2]), version |-> version]

parseDocumentIdentifier(identifier) ==
  LET parts == Split(identifier, DOCUMENT_IDENTIFIER_SEPARATOR)
  IN IF Len(parts) # 3 THEN Null
     ELSE IF parts[1] = <<>> \/ parts[2] = <<>> THEN Null
     ELSE IF ~IsHexHash(parts[2]) THEN Null
     ELSE LET version == ParseInt10(parts[3])
          IN IF ~NumberIsFinite(version) \/ NumLess(version, Num(0))
                  \/ NumLess(Num(255), version)
             THEN Null
             ELSE [notary |-> parts[1], hash |-> parts[2], version |-> version]

\* ------------------------------------------- hash and u8 validation
\* A thrown Error: isError tells `instanceof Error`, code is the `code`
\* property (None when absent), message the parts of the message text
\* (the parts of a multi-paragraph message are joined by blank lines).
ErrorValue(isError, code, message) ==
  [isError |-> isError, code |-> code, message |-> message]
NewError(text) == ErrorValue(TRUE, NoCode, <<text>>)

Ok(value) == [ok |-> TRUE, value |-> value]
Throw(error) == [ok |-> FALSE, error |-> error]

HexDigitValue(c) ==
  IF c \in Digits THEN DigitValue(c)
  ELSE CASE c = "a" -> 10 [] c = "b" -> 11 [] c = "c" -> 12
         [] c = "d" -> 13 [] c = "e" -> 14 [] c = "f" -> 15

documentHashFromHexNoTrim(hex) ==
  LET normalized == ToLowerCase(hex)
  IN IF Len(normalized) # DOCUMENT_HASH_BYTE_LENGTH * 2
     THEN Throw(NewError("Document hash must be 64 hex characters."))
     ELSE IF normalized = <<>> \/ \E i \in 1..Len(normalized) : normalized[i] \notin LowerHexChars
     THEN Throw(NewError("Document hash must be a valid hexadecimal string."))
     ELSE Ok([i \in 1..DOCUMENT_HASH_BYTE_LENGTH |->
               16 * HexDigitValue(normalized[2 * i - 1]) + HexDigitValue(normalized[2 * i])])

documentHashFromHexAnyLength(hex) ==
  LET normalized == ToLowerCase(Trim(hex))
  IN IF normalized = <<>> \/ \E i \in 1..Len(normalized) : normalized[i] \notin LowerHexChars
     THEN Throw(NewError("Document hash must be a valid hexadecimal string."))
     ELSE Ok([i \in 1..(Len(normalized) \div 2) |->
               16 * HexDigitValue(normalized[2 * i - 1]) + HexDigitValue(normalized[2 * i])])

documentHashFromHex(hex) ==
  LET normalized == ToLowerCase(Trim(hex))
  IN IF Len(normalized) # DOCUMENT_HASH_BYTE_LENGTH * 2
     THEN Throw(NewError("Document hash must be 64 hex characters."))
     ELSE IF normalized = <<>> \/ \E i \in 1..Len(normalized) : normalized[i] \notin LowerHexChars
     THEN Throw(NewError("Document hash must be a valid hexadecimal string."))
     ELSE Ok([i \in 1..DOCUMENT_HASH_BYTE_LENGTH |->
               16 * HexDigitValue(normalized[2 * i - 1]) + HexDigitValue(normalized[2 * i])])

ensureU8(value, label) ==
  IF ~NumberIsInteger(value) \/ NumLess(value, Num(0)) \/ NumLess(Num(255), value)
  THEN Throw(NewError(label \o " must be an integer between 0 and 255."))
  ELSE Ok(value)

HexDigitChars == <<"0", "1", "2", "3", "4", "5", "6", "7", "8", "9", "a", "b", "c", "d", "e", "f">>

\* byte.toString(16).padStart(2, "0") for every byte, joined.
arrayBufferToHex(bytes) ==
  [i \in 1..(2 * Len(bytes)) |->
     LET b == bytes[(i + 1) \div 2]
     IN IF i % 2 = 1 THEN HexDigitChars[(b \div 16) + 1] ELSE HexDigitChars[(b % 16) + 1]]

\* ------------------------------------------------- instruction builders
\* Storing a number into a Uint8Array element: NaN and the infinities give
\* 0, any other number is truncated and taken modulo 256.
ToUint8(v) ==
  IF ~NumberIsFinite(v) THEN 0
  ELSE LET n == IntOf(MathTrunc(v))
       IN IF n >= 0 THEN n % BYTE_RANGE
          ELSE (BYTE_RANGE - ((-n) % BYTE_RANGE)) % BYTE_RANGE

\* TextEncoder.encode for the characters of the model: ASCII characters give
\* one byte, and the character U+00E9 gives the two bytes 195, 169.
EncodedChars ==
  << " ", "A", "D", "N", "U", "a", "b", "c", "d", "e", "i", "l", "m", "n", "o", "r",
     "t", "u", "z" >>
CharCodes ==
  << 32, 65, 68, 78, 85, 97, 98, 99, 100, 101, 105, 108, 109, 110, 111, 114,
     116, 117, 122 >>
EAcute == "U+00E9"
Utf8Of(char) ==
  IF char = EAcute THEN <<195, 169>>
  ELSE <<CharCodes[CHOOSE k \in 1..Len(EncodedChars) : EncodedChars[k] = char]>>

RECURSIVE TextEncode(_)
TextEncode(text) ==
  IF text = <<>> THEN <<>> ELSE Utf8Of(Head(text)) \o TextEncode(Tail(text))

UntitledDocument ==
  <<"U", "n", "t", "i", "t", "l", "e", "d", " ", "D", "o", "c", "u", "m", "e", "n", "t">>

\* The same four bytes, most significant first.
Uint32BE(n) ==
  [i \in 1..U32_BYTE_LENGTH |->
     CASE i = 4 -> n % BYTE_RANGE
       [] i = 3 -> (n \div BYTE_RANGE) % BYTE_RANGE
       [] i = 2 -> (n \div (BYTE_RANGE * BYTE_RANGE)) % BYTE_RANGE
       [] OTHER -> (n \div (BYTE_RANGE * BYTE_RANGE * BYTE_RANGE)) % BYTE_RANGE]

\* view.setUint32(0, n, true): four bytes, least significant first.
Uint32LE(n) ==
  [i \in 1..U32_BYTE_LENGTH |->
     CASE i = 1 -> n % BYTE_RANGE
       [] i = 2 -> (n \div BYTE_RANGE) % BYTE_RANGE
       [] i = 3 -> (n \div (BYTE_RANGE * BYTE_RANGE)) % BYTE_RANGE
       [] OTHER -> (n \div (BYTE_RANGE * BYTE_RANGE * BYTE_RANGE)) % BYTE_RANGE]

encodeStringWithLength(value) ==
  LET utf8 == TextEncode(value) IN Uint32LE(Len(utf8)) \o utf8

CREATE_NOTARIZATION_DISCRIMINATOR == <<71, 177, 199, 241, 100, 108, 216, 66>>
UPDATE_NOTARIZATION_DISCRIMINATOR == <<97, 79, 153, 194, 63, 120, 17, 137>>

encodeCreateNotarizationData(documentHash, documentName, hashVersion, version) ==
  CREATE_NOTARIZATION_DISCRIMINATOR \o documentHash
    \o encodeStringWithLength(documentName)
    \o <<ToUint8(hashVersion), ToUint8(version)>>

encodeUpdateNotarizationData(oldDocumentHash, oldVersion, newDocumentHash, newVersion, hashVersion) ==
  UPDATE_NOTARIZATION_DISCRIMINATOR \o oldDocumentHash \o <<ToUint8(oldVersion)>>
    \o newDocumentHash \o <<ToUint8(newVersion), ToUint8(hashVersion)>>

\* The accounts of an instruction are left out: only `data` is modelled.
getCreateNotarizationInstruction(args) ==
  IF Len(args.documentHash) # DOCUMENT_HASH_BYTE_LENGTH
  THEN Throw(NewError("Document hash must be 32 bytes."))
  ELSE LET sanitizedName ==
             IF Trim(args.documentName) = <<>> THEN UntitledDocument
             ELSE Trim(args.documentName)
       IN Ok(encodeCreateNotarizationData(args.documentHash, sanitizedName,
                                          args.hashVersion, args.version))

getUpdateNotarizationInstruction(args) ==
  IF Len(args.oldDocumentHash) # DOCUMENT_HASH_BYTE_LENGTH
  THEN Throw(NewError("Old document hash must be 32 bytes."))
  ELSE IF Len(args.newDocumentHash) # DOCUMENT_HASH_BYTE_LENGTH
  THEN Throw(NewError("New document hash must be 32 bytes."))
  ELSE IF ~ensureU8(args.oldVersion, "oldVersion").ok
  THEN ensureU8(args.oldVersion, "oldVersion")
  ELSE IF ~ensureU8(args.newVersion, "newVersion").ok
  THEN ensureU8(args.newVersion, "newVersion")
  ELSE IF ~ensureU8(args.hashVersion, "hashVersion").ok
  THEN ensureU8(args.hashVersion, "hashVersion")
  ELSE Ok(encodeUpdateNotarizationData(args.oldDocumentHash, args.oldVersion,
                                       args.newDocumentHash, args.newVersion,
                                       args.hashVersion))


\* ------------------------------------------------ program derived address
NOTARIZATION_PROGRAM_ID == "2WDpVp8voZu2koiQ6guFZ9AQkxZcQ3jtr8bU494p2UAa"
PDA_SEED_PREFIX == <<"n", "o", "t", "a", "r", "i", "z", "a", "t", "i", "o", "n">>
PDA_SEED_PREFIX_BYTES == TextEncode(PDA_SEED_PREFIX)

\* A seed handed to getProgramDerivedAddress: bytes, or `undefined` when the
\* caller left the property out.
Seed(bytes) == [defined |-> TRUE, bytes |-> bytes]
UndefinedSeed == [defined |-> FALSE, bytes |-> <<>>]

\* addressEncoder.encode: the bytes of an address (base58 decoding is
\* external; the addresses of the model are encoded by their characters).
AddressEncode(address) == TextEncode(address)

RECURSIVE ConcatSeeds(_)
ConcatSeeds(seeds) ==
  IF seeds = <<>> THEN <<>> ELSE Head(seeds).bytes \o ConcatSeeds(Tail(seeds))

NoAddress == [programAddress |-> "none", seedBytes |-> <<>>]

\* getProgramDerivedAddress (@solana/addresses): the address is a digest of
\* the concatenated seed bytes and the program address, so equal inputs give
\* equal addresses. What the library does with an undefined seed is not part
\* of this repository: it either throws a TypeError or takes the seed as
\* contributing no bytes.
getProgramDerivedAddress(programAddress, seeds) ==
  LET derived == Ok([programAddress |-> programAddress, seedBytes |-> ConcatSeeds(seeds)])
  IN IF \E i \in 1..Len(seeds) : ~seeds[i].defined
     THEN {derived, Throw(NewError("Cannot read properties of undefined (reading 'byteLength')"))}
     ELSE {derived}

\* findNotarizationPda({ documentHash, notary, version }): the set of its
\* possible outcomes.
findNotarizationPda(documentHash, notary, version) ==
  IF Len(documentHash) # DOCUMENT_HASH_BYTE_LENGTH
  THEN {Throw(NewError("Document hash must be 32 bytes."))}
  ELSE getProgramDerivedAddress(
         NOTARIZATION_PROGRAM_ID,
         <<Seed(PDA_SEED_PREFIX_BYTES), Seed(AddressEncode(notary)), Seed(documentHash),
           version>>)

\* getNotarizationAccountDetails up to the address it reads: the outcomes
\* of its validation and derivation.
getNotarizationAccountDetailsAddress(notary, documentHashHex, version) ==
  LET normalizedVersion == ensureU8(version, "version")
      documentHash == documentHashFromHex(documentHashHex)
  IN IF ~normalizedVersion.ok THEN {normalizedVersion}
     ELSE IF ~documentHash.ok THEN {documentHash}
     ELSE findNotarizationPda(documentHash.value, notary,
                              Seed(<<ToUint8(normalizedVersion.value)>>))

\* ------------------------------------------------ decodeNotarizationAccount
ACCOUNT_DISCRIMINATOR_LENGTH == 8
HASH_LENGTH == 32
PUBLIC_KEY_LENGTH == 32
TIMESTAMP_BYTE_LENGTH == 8
VERSION_BYTE_LENGTH == 1
LENGTH_PREFIX_BYTE_LENGTH == 4

\* data.slice(from, to) for 0 <= from <= to: the bytes that exist in the range.
SliceBytes(data, from, to) ==
  SubSeq(data, from + 1, IF to <= Len(data) THEN to ELSE Len(data))

\* The unsigned value of bytes read least significant byte first.
RECURSIVE UintLE(_)
UintLE(bytes) ==
  IF bytes = <<>> THEN 0 ELSE Head(bytes) + BYTE_RANGE * UintLE(Tail(bytes))

\* The unsigned value of bytes read most significant byte first.
RECURSIVE UintBE(_)
UintBE(bytes) ==
  IF bytes = <<>> THEN 0
  ELSE UintBE(SubSeq(bytes, 1, Len(bytes) - 1)) * BYTE_RANGE + bytes[Len(bytes)]

\* nameLengthView.getUint32(0, true)
GetUint32LE(bytes) == UintLE(bytes)

\* Number(timestampView.getBigInt64(0, true)): two's complement, least
\* significant byte first (exact for the magnitudes below 2^53).
GetBigInt64LE(bytes) ==
  IF bytes[Len(bytes)] < 128 THEN UintLE(bytes)
  ELSE -(1 + UintLE([i \in 1..Len(bytes) |-> (BYTE_RANGE - 1) - bytes[i]]))

\* textDecoder.decode for the characters of the model; bytes that are not
\* the encoding of one of them give U+FFFD.
ReplacementChar == "U+FFFD"
RECURSIVE TextDecode(_)
TextDecode(bytes) ==
  IF bytes = <<>> THEN <<>>
  ELSE IF Len(bytes) >= 2 /\ SubSeq(bytes, 1, 2) = Utf8Of(EAcute)
  THEN <<EAcute>> \o TextDecode(SubSeq(bytes, 3, Len(bytes)))
  ELSE IF \E k \in 1..Len(CharCodes) : CharCodes[k] = Head(bytes)
  THEN <<EncodedChars[CHOOSE k \in 1..Len(CharCodes) : CharCodes[k] = Head(bytes)]>>
         \o TextDecode(Tail(bytes))
  ELSE <<ReplacementChar>> \o TextDecode(Tail(bytes))

\* addressDecoder.decode: the base58 text of 32 bytes, kept as the bytes.
AddressDecode(bytes) == [base58Of |-> bytes]

\* data[index] ?? 0
ByteOrZero(data, index) == IF index + 1 <= Len(data) THEN data[index + 1] ELSE 0

decodeNotarizationAccount(data) ==
  LET hashOffset == ACCOUNT_DISCRIMINATOR_LENGTH
      notaryOffset == hashOffset + HASH_LENGTH
      timestampOffset == notaryOffset + PUBLIC_KEY_LENGTH
      versionOffset == timestampOffset + TIMESTAMP_BYTE_LENGTH
      lengthOffset == versionOffset + VERSION_BYTE_LENGTH
      nameOffset == lengthOffset + LENGTH_PREFIX_BYTE_LENGTH
      nameLength == GetUint32LE(SliceBytes(data, lengthOffset, nameOffset))
      tailOffset == nameOffset + nameLength
  IN IF Len(data) < ACCOUNT_DISCRIMINATOR_LENGTH + HASH_LENGTH + PUBLIC_KEY_LENGTH
     THEN Throw(NewError("Notarization account data is too short."))
     ELSE IF timestampOffset + TIMESTAMP_BYTE_LENGTH > Len(data)
     THEN Throw(NewError("Notarization account is missing timestamp information."))
     ELSE IF versionOffset + VERSION_BYTE_LENGTH > Len(data)
     THEN Throw(NewError("Notarization account is missing version information."))
     ELSE IF lengthOffset + LENGTH_PREFIX_BYTE_LENGTH > Len(data)
     THEN Throw(NewError("Notarization account is missing document name length."))
     ELSE IF nameOffset + nameLength > Len(data)
     THEN Throw(NewError("Notarization account contains an invalid document name length."))
     ELSE Ok([ hash |-> arrayBufferToHex(SliceBytes(data, hashOffset, notaryOffset)),
               notary |-> AddressDecode(SliceBytes(data, notaryOffset, timestampOffset)),
               timestamp |-> Num(GetBigInt64LE(SliceBytes(data, timestampOffset, versionOffset))),
               version |-> Num(data[versionOffset + 1]),
               documentName |-> Trim(TextDecode(SliceBytes(data, nameOffset, tailOffset))),
               bump |-> Num(ByteOrZero(data, tailOffset)),
               hashVersion |-> Num(ByteOrZero(data, tailOffset + 1)),
               additional |-> Num(ByteOrZero(data, tailOffset + 2)) ])

\* ---------------------------------------------------- confirmation levels
Commitments == {"processed", "confirmed", "finalized"}

normalizeCommitment(commitment) ==
  CASE commitment = "processed" -> "processed"
    [] commitment = "finalized" -> "finalized"
    [] OTHER -> "confirmed"

confirmationLevelToPriorityWithoutFinalized(level) ==
  CASE level = "processed" -> 0
    [] level = "confirmed" -> 1
    [] OTHER -> 1

confirmationLevelToPriority(level) ==
  CASE level = "processed" -> 0
    [] level = "confirmed" -> 1
    [] level = "finalized" -> 2
    [] OTHER -> 1

\* A signature status: Null, or a record with confirmationStatus (None when
\* absent), confirmations (NoConfirmations when null) and err (None when
\* the transaction did not fail).
SignatureStatus(confirmationStatus, confirmations, err) ==
  [confirmationStatus |-> confirmationStatus, confirmations |-> confirmations, err |-> err]

deriveConfirmationLevel(status) ==
  IF status.confirmationStatus # None THEN status.confirmationStatus
  ELSE IF status.confirmations = NoConfirmations THEN "finalized"
  ELSE IF status.confirmations > 0 THEN "confirmed" ELSE "processed"

hasSufficientConfirmationStrict(status, commitment) ==
  IF status = Null THEN FALSE
  ELSE IF status.err # None THEN FALSE
  ELSE confirmationLevelToPriority(deriveConfirmationLevel(status))
         > confirmationLevelToPriority(normalizeCommitment(commitment))

hasSufficientConfirmationIgnoringErr(status, commitment) ==
  IF status = Null THEN FALSE
  ELSE confirmationLevelToPriority(deriveConfirmationLevel(status))
         >= confirmationLevelToPriority(normalizeCommitment(commitment))

hasSufficientConfirmation(status, commitment) ==
  IF status = Null THEN FALSE
  ELSE IF status.err # None THEN FALSE
  ELSE confirmationLevelToPriority(deriveConfirmationLevel(status))
         >= confirmationLevelToPriority(normalizeCommitment(commitment))

NextDelayUncapped(delayMs) == delayMs * 2

\* delayMs = Math.min(delayMs * 2, 4_000)
NextDelay(delayMs) == IF delayMs * 2 < MAX_DELAY_MS THEN delayMs * 2 ELSE MAX_DELAY_MS

\* ------------------------------------------------------- error messages
\* The message texts that occur in the model.
MsgUserRejected == "User rejected the request."
MsgPopupClosed == "The approval popup was closed."
MsgWalletLocked == "Wallet is locked."
MsgSimulationFailed == "Transaction simulation failed: custom program error: 0x1"
MsgNotConfirmed == "Transaction was not confirmed in time."
MsgObjectString == "[object Object]"
MsgRpcFailed == "RPC request failed."
MsgNotFullySigned == "Transaction is missing signatures."
MsgFileUnreadable == "The file could not be read."
MsgSubmitFallback == "Failed to submit the notarization transaction."
MsgReadFallback == "Unable to read the PDF file."
MsgConvertFallback == "Unable to convert the PDF into a binary document."
MsgConnectWallet == "Please connect your wallet."
MsgHashUnavailable == "Binary hash unavailable. Unable to submit notarization."
\* ------------------------------------------ extractCustomProgramErrorCode
CustomProgramErrorText ==
  << "c", "u", "s", "t", "o", "m", " ", "p", "r", "o", "g", "r", "a", "m", " ",
     "e", "r", "r", "o", "r", ":" >>

RECURSIVE HexPrefixValue(_, _)
\* Value of the longest prefix of hexadecimal digits of s, continuing from acc.
HexPrefixValue(s, acc) ==
  IF s # <<>> /\ Head(s) \in HexChars
  THEN HexPrefixValue(Tail(s), 16 * acc + HexDigitValue(ToLowerChar(Head(s))))
  ELSE acc

NoMatch == [matched |-> FALSE, code |-> Num(0)]

\* /custom program error:\s*(?:#([0-9]+)|0x([0-9a-f]+))/i tried at position
\* i of the message, and the parseInt of the group that matched.
MatchCustomProgramErrorAt(message, i) ==
  LET last == i + Len(CustomProgramErrorText) - 1
      rest == SkipWhiteSpace(SubSeq(message, last + 1, Len(message)))
  IN IF last > Len(message) THEN NoMatch
     ELSE IF ToLowerCase(SubSeq(message, i, last)) # CustomProgramErrorText THEN NoMatch
     ELSE IF Len(rest) >= 2 /\ rest[1] = "#" /\ rest[2] \in Digits
     THEN [matched |-> TRUE, code |-> Num(DigitPrefixValue(Tail(rest), 0))]
     ELSE IF Len(rest) >= 3 /\ rest[1] = "0" /\ ToLowerChar(rest[2]) = "x"
             /\ rest[3] \in HexChars
     THEN [matched |-> TRUE, code |-> Num(HexPrefixValue(Tail(Tail(rest)), 0))]
     ELSE NoMatch

\* The same with a hexadecimal group read in base 10.
extractCustomProgramErrorCodeBase10(message) ==
  IF message = NullStr \/ message = <<>> THEN Null
  ELSE LET hits == {i \in 1..Len(message) : MatchCustomProgramErrorAt(message, i).matched}
       IN IF hits = {} THEN Null
          ELSE LET first == CHOOSE i \in hits : \A j \in hits : i <= j
                   rest == SkipWhiteSpace(SubSeq(message, first + Len(CustomProgramErrorText),
                                                 Len(message)))
               IN IF rest[1] = "#" THEN MatchCustomProgramErrorAt(message, first).code
                  ELSE Num(DigitPrefixValue(Tail(Tail(rest)), 0))

extractCustomProgramErrorCode(message) ==
  IF message = NullStr \/ message = <<>> THEN Null
  ELSE LET hits == {i \in 1..Len(message) : MatchCustomProgramErrorAt(message, i).matched}
       IN IF hits = {} THEN Null
          ELSE MatchCustomProgramErrorAt(message, CHOOSE i \in hits : \A j \in hits : i <= j).code

GuidanceCustomError1 ==
  "Transaction simulation failed with custom program error #1. Review the RPC message and simulation logs for more details."
RpcMessageSimulationFailed ==
  "RPC message: Transaction simulation failed: custom program error: 0x1 (#1)"

\* /reject/i on one paragraph of a message, for the texts of the model.
TextMatchesReject(text) == text \in {MsgUserRejected}
\* /transaction simulation failed/i, for the texts of the model.
TextMatchesSimulationFailed(text) ==
  text \in {MsgSimulationFailed, GuidanceCustomError1, RpcMessageSimulationFailed}

MessageMatchesReject(message) ==
  \E i \in 1..Len(message) : TextMatchesReject(message[i])
MessageMatchesSimulationFailed(message) ==
  \E i \in 1..Len(message) : TextMatchesSimulationFailed(message[i])

\* enhanceSendError, for errors that carry a message and no nested cause,
\* logs or details: a simulation failure becomes a new Error whose message
\* is the guidance followed by the normalized RPC message; any other Error
\* is returned as it is, any other value is wrapped into an Error.
enhanceSendError(error) ==
  LET message == IF error.isError THEN error.message ELSE <<MsgObjectString>>
  IN IF ~MessageMatchesSimulationFailed(message)
     THEN IF error.isError THEN error ELSE ErrorValue(TRUE, NoCode, message)
     ELSE ErrorValue(TRUE, NoCode, <<GuidanceCustomError1, RpcMessageSimulationFailed>>)

\* ------------------------------------------------- inputs of the model
Ids == 1..MaxEntries

NanoId(i) == <<"i", "d", DigitChars[i + 1]>>
NotaryA == <<"N", "t", "A">>
SignatureOf(i) == "sig" \o DigitChars[i + 1]
getExplorerLink(signature) == "https://explorer.solana.com/tx/" \o signature

\* The SHA-256 digest of a file content (crypto.subtle.digest is external):
\* 32 bytes that differ between the contents.
Contents == 1..MaxContents
Sha256Of(content) == [i \in 1..DOCUMENT_HASH_BYTE_LENGTH |-> (content * 83 + i * 7) % 256]
Sha1Of(content) == "sha1-" \o DigitChars[content + 1]

\* Values given to setDocumentVersion: 1.5 (the version input of the page
\* passes what the user typed).
VersionInputs == {Fin(3)}
\* Values given to clampVersion: -7, -0.5, 0, 1.5, 255, 255.5, 256, 300,
\* NaN, Infinity and -Infinity.
ClampInputs ==
  { Num(-7), Fin(-1), Num(0), Fin(3), Num(255), Fin(511), Num(256), Num(300),
    NaN, PosInf, NegInf }

\* Files offered to stageEntries.
FileInputs == [accepted : BOOLEAN, content : Contents]
FileLists == {<<f>> : f \in FileInputs} \cup {<<f, g>> : f \in FileInputs, g \in FileInputs}

\* What file.arrayBuffer() and `new File` can do.
ReadOutcomes == {"ok", "rejectError", "rejectOther", "fileCtorOther"}
\* computeDigestsFromBuffer: digests, no crypto.subtle, or digest() rejects.
DigestOutcomes == {"ok", "unavailable", "rejects"}
RpcOutcomes == {"ok", "throws"}

\* What wallet.signTransaction can do: a fully signed transaction, one with
\* a signature missing, or a rejection with one of these values.
SignRejections ==
  { ErrorValue(TRUE, WALLET_REJECTION_CODE, <<MsgUserRejected>>),
    ErrorValue(FALSE, WALLET_REJECTION_CODE, <<MsgPopupClosed>>),
    ErrorValue(TRUE, NoCode, <<MsgUserRejected>>),
    ErrorValue(FALSE, NoCode, <<MsgUserRejected>>),
    ErrorValue(TRUE, NoCode, <<MsgWalletLocked>>) }

\* What client.sendAndConfirmTransaction can throw.
SendErrors ==
  { ErrorValue(TRUE, NoCode, <<MsgSimulationFailed>>),
    ErrorValue(TRUE, NoCode, <<MsgNotConfirmed>>),
    ErrorValue(FALSE, NoCode, <<MsgNotConfirmed>>) }

\* What getSignatureStatuses can answer.
StatusInputs ==
  {Null}
    \cup {SignatureStatus(c, NoConfirmations, e) :
            c \in {"processed", "confirmed", "finalized"}, e \in {None, "InstructionError"}}
    \cup {SignatureStatus(None, n, e) : n \in {NoConfirmations, 0, 1}, e \in {None, "InstructionError"}}

\* Arguments of direct calls of submitNotarizationTransaction.
ValidHashLower == arrayBufferToHex(Sha256Of(1))
ValidHashUpper == [i \in 1..HASH_HEX_LENGTH |-> IF i % 2 = 1 THEN "A" ELSE "7"]
HashArgs ==
  { ValidHashLower,
    ValidHashUpper,
    <<" ">> \o ValidHashLower \o <<" ">>,
    SubSeq(ValidHashLower, 1, HASH_HEX_LENGTH - 1),
    ValidHashLower \o <<"0">>,
    [i \in 1..HASH_HEX_LENGTH |-> IF i = 3 THEN "g" ELSE "1"],
    <<>> }
VersionArgs == {Num(0), Num(255), Num(-1), Num(256), Fin(3), NaN, PosInf}
HashVersionArgs == {Num(1), Num(256), Fin(1)}

\* ------------------------------------------------------------------- state
VARIABLES
  idPc,                \* identifiers: "start", "composed", "parsed"
  idParts,             \* identifiers: the parts given to composeDocumentIdentifier
  idStr,               \* identifiers: the composed identifier
  idOut,               \* identifiers: what parseDocumentIdentifier returned
  fnPc,                \* single calls: "idle", or the function that was called
  fnArgs,              \* single calls: the arguments of the call
  fnOut,               \* single calls: what the call returned or threw
  entries,             \* useState: the live upload entries, as pipeline numbers
  completedDocuments,  \* useState: the completed documents, as pipeline numbers
  documentVersion,     \* useState: the version applied to new uploads
  walletAddr,          \* the connected wallet's address, NullStr when none
  nextId,              \* the number of the next entry (nanoid)
  pc,                  \* per pipeline: where convertEntry / submit is waiting
  cur,                 \* per pipeline: convertEntry's currentEntry
  sub,                 \* per pipeline: the frame of submitNotarizationTransaction
  txTrace,             \* per pipeline: the transactionStatus values written, in order
  confirmedCalls,      \* per pipeline: invocations of onTransactionConfirmed
  clearedInFlight,     \* per pipeline: the entry was cleared while convertEntry ran
  cachedClient,        \* client.ts: the memoized client (0 for null)
  clients,             \* the clients createSolanaClient has created, by number
  clientCalls,         \* the calls of getSolanaClient: argument and client returned
  walletState,         \* wallet context: provider, address, isConnecting, connectError
  walletCalls          \* the calls of connect() and disconnect() and where they are

fnVars == <<fnPc, fnArgs, fnOut>>
clientVars == <<cachedClient, clients, clientCalls>>
walletVars == <<walletState, walletCalls>>
idVars == <<idPc, idParts, idStr, idOut, fnPc, fnArgs, fnOut, clientVars, walletVars>>
hookVars == <<entries, completedDocuments, documentVersion, walletAddr, nextId>>
pipeVars == <<pc, cur, sub, txTrace, confirmedCalls, clearedInFlight>>
vars == <<idPc, idParts, idStr, idOut, fnPc, fnArgs, fnOut, entries, completedDocuments, documentVersion,
          walletAddr, nextId, pc, cur, sub, txTrace, confirmedCalls, clearedInFlight,
          cachedClient, clients, clientCalls, walletState, walletCalls>>

\* ----------------------------------------------------------------- entries
NewEntry(i, file, version) ==
  [ id |-> NanoId(i), file |-> file.content, status |-> "idle", progress |-> 0,
    version |-> version, checksum |-> None, binHash |-> NullStr,
    transactionStatus |-> "idle", transactionHash |-> None, transactionUrl |-> None,
    transactionError |-> NullStr, error |-> NullStr, notaryAddress |-> NullStr ]

NoEntry == NewEntry(0, [accepted |-> FALSE, content |-> 0], Num(0))

\* { ...entry, ...updates }
Merge(entry, updates) ==
  [f \in DOMAIN entry |-> IF f \in DOMAIN updates THEN updates[f] ELSE entry[f]]

\* The two lists of the hook hold pipeline numbers: the record of the live
\* entry i is cur[i], which is what syncEntry writes into the list, and the
\* document of a completed pipeline i is made from cur[i], which no longer
\* changes once the pipeline is done.
\* Variants of the two list updates: a map that overwrites every item, a map
\* that adds the entry when it is absent, and a filter that keeps everything.
ReplaceEntryAll(list, id) == [k \in 1..Len(list) |-> id]

ReplaceEntryUpsert(list, id) ==
  IF \E k \in 1..Len(list) : list[k] = id THEN list ELSE Append(list, id)

RemoveNothing(list, id) == list

\* prev.map((item) => (item.id === id ? currentEntry : item))
ReplaceEntry(list, id) ==
  [k \in 1..Len(list) |-> IF list[k] = id THEN id ELSE list[k]]

\* prev.filter((item) => item.id !== id)
RemoveEntry(list, id) == SelectSeq(list, LAMBDA item : item # id)

finalizeWithErrorAsCancelled(message) ==
  [ status |-> "error", error |-> message, progress |-> 0,
    transactionStatus |-> "cancelled", transactionError |-> message,
    transactionHash |-> None, transactionUrl |-> None ]

finalizeWithErrorUpdates(message) ==
  [ status |-> "error", error |-> message, progress |-> 0,
    transactionStatus |-> "error", transactionError |-> message,
    transactionHash |-> None, transactionUrl |-> None ]

\* The transactionStatus values written so far, a new one appended.
Written(trace, status) ==
  IF trace[Len(trace)] = status THEN trace ELSE Append(trace, status)

deriveDocumentIdentifier(entry) ==
  IF entry.notaryAddress = NullStr \/ entry.binHash = NullStr THEN NullStr
  ELSE composeDocumentIdentifier(
         [notary |-> entry.notaryAddress, hash |-> entry.binHash, version |-> entry.version])

\* A variant that reports every document with the default transactionStatus.
mapEntryToDocumentChangeWithoutStatus(entry) ==
  LET documentIdentifier == deriveDocumentIdentifier(entry)
  IN [ id |-> IF documentIdentifier # NullStr THEN documentIdentifier ELSE entry.id,
       checksum |-> entry.checksum,
       binHash |-> entry.binHash,
       version |-> entry.version,
       transactionHash |-> entry.transactionHash,
       transactionUrl |-> entry.transactionUrl,
       transactionStatus |-> "idle",
       notaryAddress |-> entry.notaryAddress,
       documentIdentifier |-> documentIdentifier,
       error |-> IF entry.transactionError # NullStr THEN entry.transactionError
                 ELSE entry.error ]

mapEntryToDocumentChange(entry) ==
  LET documentIdentifier == deriveDocumentIdentifier(entry)
  IN [ id |-> IF documentIdentifier # NullStr THEN documentIdentifier ELSE entry.id,
       checksum |-> entry.checksum,
       binHash |-> entry.binHash,
       version |-> entry.version,
       transactionHash |-> entry.transactionHash,
       transactionUrl |-> entry.transactionUrl,
       transactionStatus |-> entry.transactionStatus,
       notaryAddress |-> entry.notaryAddress,
       documentIdentifier |-> documentIdentifier,
       error |-> IF entry.transactionError # NullStr THEN entry.transactionError
                 ELSE entry.error ]

\* The live entries and the completed documents as records.
Entries == [k \in 1..Len(entries) |-> cur[entries[k]]]
CompletedDocuments ==
  [k \in 1..Len(completedDocuments) |-> mapEntryToDocumentChange(cur[completedDocuments[k]])]

\* ------------------------------------- submitNotarizationTransaction
Returned(signature, explorerUrl) ==
  [kind |-> "returned", signature |-> signature, explorerUrl |-> explorerUrl]
Thrown(error, at) == [kind |-> "thrown", error |-> error, at |-> at]

\* The frame of a call: its arguments, the locals of the polling loop, what
\* it returned or threw (outcome), and counts of the requests it has issued:
\* rpc (getLatestBlockhash and getSignatureStatuses), signReq
\* (wallet.signTransaction), sent (sendAndConfirmTransaction), queries
\* (getSignatureStatuses), those of them that threw (thrownQueries), the
\* delays waited, whether a finalized status without error was received
\* (gotFinal), whether every status received
\* carried an error (allErr), the last status received that carried an error
\* (errStatus), the result of the polling loop (polled), and
\* how wallet.signTransaction ended (signed: "full", "partial", "rejected").
IdleFrame ==
  [ caller |-> "none", notary |-> NullStr, notarizationAddress |-> NoAddress,
    hashHex |-> NullStr, version |-> Num(0), hashVersion |-> Num(0),
    commitment |-> "confirmed", attempt |-> 0, delayMs |-> 0, sendError |-> Null,
    rpc |-> 0, signReq |-> 0, sent |-> 0, queries |-> 0, delays |-> <<>>,
    thrownQueries |-> 0, gotFinal |-> FALSE, allErr |-> TRUE, errStatus |-> Null,
    polled |-> "none",
    signed |-> "none",
    outcome |-> Null ]

\* The three checks that open the function; the first that fails throws.
ValidationOf(hashHex, version, hashVersion) ==
  LET documentHash == documentHashFromHex(hashHex)
      normalizedHashVersion == ensureU8(hashVersion, "hashVersion")
      normalizedVersion == ensureU8(version, "version")
  IN IF ~documentHash.ok THEN documentHash
     ELSE IF ~normalizedHashVersion.ok THEN normalizedHashVersion
     ELSE normalizedVersion

\* The frame after the synchronous start of the call: either the validation
\* threw, or getLatestBlockhash has been requested.
StartSubmit(caller, notary, hashHex, version, hashVersion, commitment) ==
  LET checked == ValidationOf(hashHex, version, hashVersion)
      frame == [IdleFrame EXCEPT !.caller = caller, !.notary = notary, !.hashHex = hashHex,
                  !.version = version, !.hashVersion = hashVersion,
                  !.commitment = commitment]
  IN IF checked.ok THEN [frame EXCEPT !.rpc = 1]
     ELSE [frame EXCEPT !.outcome = Thrown(checked.error, "validation")]

\* ------------------------------------------------- the uploader's reaction
\* A variant that records a returned call without its signature.
AfterSubmitUpdatesWithoutHash(outcome) ==
  IF outcome.kind = "returned"
  THEN [ transactionStatus |-> "confirmed", transactionError |-> NullStr,
         transactionUrl |-> outcome.explorerUrl ]
  ELSE [ transactionStatus |-> "error", transactionError |-> <<MsgSubmitFallback>>,
         transactionHash |-> None, transactionUrl |-> None ]

\* attemptTransactionSignature: the updates after the call returned or threw.
AfterSubmitUpdates(outcome) ==
  IF outcome.kind = "returned"
  THEN [ transactionHash |-> outcome.signature, transactionStatus |-> "confirmed",
         transactionError |-> NullStr, transactionUrl |-> outcome.explorerUrl ]
  ELSE LET error == outcome.error
           rejectionCode == error.code
           message == IF error.isError THEN error.message ELSE <<MsgSubmitFallback>>
           rejected == rejectionCode = WALLET_REJECTION_CODE \/ MessageMatchesReject(message)
       IN IF rejected
          THEN [ transactionStatus |-> "cancelled", transactionError |-> NullStr,
                 transactionUrl |-> None ]
          ELSE [ transactionStatus |-> "error", transactionError |-> message,
                 transactionHash |-> None, transactionUrl |-> None ]

\* The call of pipeline id ends with outcome: a direct caller gets it, the
\* uploader records it in the entry (syncEntry) and goes on to its last step.
\* Of the uploader's calls only the outcome is kept once they are over.
Deliver(id, frame, outcome) ==
  /\ sub' = [sub EXCEPT ![id] = IF frame.caller = "uploader"
                                THEN [IdleFrame EXCEPT !.caller = "uploader",
                                                       !.outcome = outcome]
                                ELSE [frame EXCEPT !.outcome = outcome]]
  /\ IF frame.caller = "uploader"
     THEN LET entry == Merge(cur[id], AfterSubmitUpdates(outcome))
          IN /\ cur' = [cur EXCEPT ![id] = entry]
             /\ entries' = ReplaceEntry(entries, id)
             /\ txTrace' = [txTrace EXCEPT ![id] = Written(@, entry.transactionStatus)]
             /\ pc' = [pc EXCEPT ![id] = "finish"]
     ELSE /\ pc' = [pc EXCEPT ![id] = "returned"]
          /\ UNCHANGED <<cur, entries, txTrace>>

\* The call goes on waiting at `at` with the frame changed.
Continue(id, frame, at) ==
  /\ sub' = [sub EXCEPT ![id] = frame]
  /\ pc' = [pc EXCEPT ![id] = at]
  /\ UNCHANGED <<cur, entries, txTrace>>

\* await client.rpc.getLatestBlockhash().send()
GetLatestBlockhash(id) ==
  /\ pc[id] = "blockhash"
  /\ \E outcome \in RpcOutcomes :
       IF outcome = "ok"
       THEN Continue(id, sub[id], "pda")
       ELSE Deliver(id, sub[id], Thrown(NewError(MsgRpcFailed), "blockhash"))
  /\ UNCHANGED <<idVars, clearedInFlight, completedDocuments, documentVersion, walletAddr, nextId,
                 confirmedCalls>>

\* await findNotarizationPda({ documentHash, notary: wallet.address }), called
\* without a version; then the instruction and the transaction are built and
\* compiled and wallet.signTransaction is called.
FindNotarizationPda(id) ==
  /\ pc[id] = "pda"
  /\ \E outcome \in findNotarizationPda(documentHashFromHex(sub[id].hashHex).value,
                                        sub[id].notary, UndefinedSeed) :
       IF outcome.ok
       THEN Continue(id, [sub[id] EXCEPT !.notarizationAddress = outcome.value,
                                         !.signReq = @ + 1], "sign")
       ELSE Deliver(id, sub[id], Thrown(outcome.error, "pda"))
  /\ UNCHANGED <<idVars, clearedInFlight, completedDocuments, documentVersion, walletAddr, nextId,
                 confirmedCalls>>

SignResolvesWithoutAssert(id) ==
  /\ pc[id] = "sign"
  /\ \E fullySigned \in BOOLEAN :
       Continue(id, [sub[id] EXCEPT !.sent = @ + 1,
                                    !.signed = IF fullySigned THEN "full" ELSE "partial"],
                "send")
  /\ UNCHANGED <<idVars, clearedInFlight, completedDocuments, documentVersion, walletAddr, nextId,
                 confirmedCalls>>

\* await wallet.signTransaction(...) resolves: assertIsFullySignedTransaction,
\* then client.sendAndConfirmTransaction is called.
SignResolves(id) ==
  /\ pc[id] = "sign"
  /\ \E fullySigned \in BOOLEAN :
       IF fullySigned
       THEN Continue(id, [sub[id] EXCEPT !.sent = @ + 1, !.signed = "full"], "send")
       ELSE Deliver(id, [sub[id] EXCEPT !.signed = "partial"],
                    Thrown(NewError(MsgNotFullySigned), "assert"))
  /\ UNCHANGED <<idVars, clearedInFlight, completedDocuments, documentVersion, walletAddr, nextId,
                 confirmedCalls>>

\* await wallet.signTransaction(...) rejects.
SignRejects(id) ==
  /\ pc[id] = "sign"
  /\ \E rejection \in SignRejections :
       Deliver(id, [sub[id] EXCEPT !.signed = "rejected"], Thrown(rejection, "sign"))
  /\ UNCHANGED <<idVars, clearedInFlight, completedDocuments, documentVersion, walletAddr, nextId,
                 confirmedCalls>>

\* await client.sendAndConfirmTransaction(...) resolves.
SendResolves(id) ==
  /\ pc[id] = "send"
  /\ Deliver(id, sub[id], Returned(SignatureOf(id), getExplorerLink(SignatureOf(id))))
  /\ UNCHANGED <<idVars, clearedInFlight, completedDocuments, documentVersion, walletAddr, nextId,
                 confirmedCalls>>

\* The polling loop returned false: throw enhanceSendError(error).
PollingFailed(id, frame) ==
  Deliver(id, [frame EXCEPT !.polled = "false"],
          Thrown(enhanceSendError(frame.sendError), "send"))

\* The head of the loop of confirmTransactionAfterSendFailure: query the
\* status once more, or give up.
LoopHead(id, frame) ==
  IF frame.attempt < DEFAULT_MAX_ATTEMPTS
  THEN Continue(id, [frame EXCEPT !.rpc = @ + 1, !.queries = @ + 1], "poll")
  ELSE PollingFailed(id, frame)

SendRejectsPollingOnSimulationFailure(id) ==
  /\ pc[id] = "send"
  /\ \E error \in SendErrors :
       IF error.isError /\ MessageMatchesSimulationFailed(error.message)
       THEN LoopHead(id, [sub[id] EXCEPT !.sendError = error, !.attempt = 0,
                                         !.delayMs = INITIAL_DELAY_MS])
       ELSE Deliver(id, [sub[id] EXCEPT !.sendError = error],
                    Thrown(enhanceSendError(error), "send"))
  /\ UNCHANGED <<idVars, clearedInFlight, completedDocuments, documentVersion, walletAddr, nextId,
                 confirmedCalls>>

\* await client.sendAndConfirmTransaction(...) rejects: the catch block
\* calls confirmTransactionAfterSendFailure, whatever the error is.
SendRejects(id) ==
  /\ pc[id] = "send"
  /\ \E error \in SendErrors :
       LoopHead(id, [sub[id] EXCEPT !.sendError = error, !.attempt = 0,
                                    !.delayMs = INITIAL_DELAY_MS])
  /\ UNCHANGED <<idVars, clearedInFlight, completedDocuments, documentVersion, walletAddr, nextId,
                 confirmedCalls>>

\* What is noted about the answers of getSignatureStatuses, for the calls
\* made directly (the calls the polling loop is examined on): the status
\* received, or that the query threw.
StatusNoted(frame, status) ==
  IF frame.caller # "direct" THEN frame
  ELSE [frame EXCEPT
          !.gotFinal = @ \/ (status # Null /\ status.err = None
                             /\ status.confirmationStatus = "finalized"),
          !.allErr = @ /\ status # Null /\ status.err # None,
          !.errStatus = IF status # Null /\ status.err # None THEN status ELSE @]

ThrowNoted(frame) ==
  IF frame.caller # "direct" THEN frame
  ELSE [frame EXCEPT !.allErr = FALSE, !.thrownQueries = @ + 1]

StatusArrivesWithoutErrReturn(id) ==
  /\ pc[id] = "poll"
  /\ \E status \in StatusInputs :
       LET frame == StatusNoted(sub[id], status)
       IN IF hasSufficientConfirmation(status, frame.commitment)
          THEN Deliver(id, [frame EXCEPT !.polled = "true"],
                       Returned(SignatureOf(id), getExplorerLink(SignatureOf(id))))
          ELSE Continue(id, frame, "wait")
  /\ UNCHANGED <<idVars, clearedInFlight, completedDocuments, documentVersion, walletAddr, nextId,
                 confirmedCalls>>

\* getSignatureStatuses answers with value[0] = status.
StatusArrives(id) ==
  /\ pc[id] = "poll"
  /\ \E status \in StatusInputs :
       LET frame == StatusNoted(sub[id], status)
       IN IF hasSufficientConfirmation(status, frame.commitment)
          THEN Deliver(id, [frame EXCEPT !.polled = "true"],
                       Returned(SignatureOf(id), getExplorerLink(SignatureOf(id))))
          ELSE IF status # Null /\ status.err # None
          THEN PollingFailed(id, frame)
          ELSE Continue(id, frame, "wait")
  /\ UNCHANGED <<idVars, clearedInFlight, completedDocuments, documentVersion, walletAddr, nextId,
                 confirmedCalls>>

StatusQueryThrowsUncaught(id) ==
  /\ pc[id] = "poll"
  /\ Deliver(id, ThrowNoted(sub[id]),
             Thrown(NewError(MsgRpcFailed), "poll"))
  /\ UNCHANGED <<idVars, clearedInFlight, completedDocuments, documentVersion, walletAddr, nextId,
                 confirmedCalls>>

\* getSignatureStatuses throws: the error is logged and the loop goes on.
StatusQueryThrows(id) ==
  /\ pc[id] = "poll"
  /\ Continue(id, ThrowNoted(sub[id]), "wait")
  /\ UNCHANGED <<idVars, clearedInFlight, completedDocuments, documentVersion, walletAddr, nextId,
                 confirmedCalls>>

\* await wait(delayMs) is over: double the delay, count the attempt, loop.
DelayElapses(id) ==
  /\ pc[id] = "wait"
  /\ LoopHead(id, [sub[id] EXCEPT !.delays = Append(@, sub[id].delayMs),
                                  !.delayMs = NextDelay(@),
                                  !.attempt = @ + 1])
  /\ UNCHANGED <<idVars, clearedInFlight, completedDocuments, documentVersion, walletAddr, nextId,
                 confirmedCalls>>

\* --------------------------------------------------- useDocumentUploader
\* convertEntry up to its first await, for a freshly staged entry: the
\* version is clamped, the entry becomes "converting", and without a wallet
\* the entry is finalized with an error.
ConvertStart(entry) ==
  LET normalized == [entry EXCEPT !.version = clampVersion(entry.version)]
      converting == Merge(normalized,
                      [ status |-> "converting",
                        progress |-> IF normalized.progress > 0 THEN normalized.progress
                                     ELSE INITIAL_PROGRESS,
                        error |-> NullStr, transactionError |-> NullStr ])
  IN IF walletAddr = NullStr
     THEN Merge(converting, finalizeWithErrorUpdates(<<MsgConnectWallet>>))
     ELSE Merge(converting, [notaryAddress |-> walletAddr])

\* stageEntries(fileList): the accepted files become entries with the
\* clamped document version, and convertEntry starts for each of them.
stageEntries(fileList) ==
  LET accepted == SelectSeq(fileList, LAMBDA file : file.accepted)
      targetVersion == clampVersion(documentVersion)
      fresh == nextId..(nextId + Len(accepted) - 1)
      started == [k \in 1..Len(accepted) |->
                    ConvertStart(NewEntry(nextId + k - 1, accepted[k], targetVersion))]
      entryOf(i) == started[i - nextId + 1]
  IN /\ nextId + Len(accepted) - 1 <= MaxEntries
     /\ IF accepted = <<>>
        THEN UNCHANGED <<hookVars, pipeVars>>
        ELSE /\ documentVersion' = targetVersion
             /\ entries' = entries \o [k \in 1..Len(accepted) |-> nextId + k - 1]
             /\ nextId' = nextId + Len(accepted)
             /\ cur' = [i \in Ids |-> IF i \in fresh THEN entryOf(i) ELSE cur[i]]
             /\ pc' = [i \in Ids |->
                         IF i \in fresh
                         THEN IF entryOf(i).status = "error" THEN "aborted" ELSE "read"
                         ELSE pc[i]]
             /\ txTrace' = [i \in Ids |->
                              IF i \in fresh
                              THEN Written(<<"idle">>, entryOf(i).transactionStatus)
                              ELSE txTrace[i]]
             /\ UNCHANGED <<completedDocuments, walletAddr, sub, confirmedCalls>>
     /\ UNCHANGED <<idVars, clearedInFlight>>

StageEntries == \E fileList \in FileLists : stageEntries(fileList)

\* finalizeWithError(message) and return.
Abort(id, message) ==
  LET entry == Merge(cur[id], finalizeWithErrorUpdates(message))
  IN /\ cur' = [cur EXCEPT ![id] = entry]
     /\ entries' = ReplaceEntry(entries, id)
     /\ txTrace' = [txTrace EXCEPT ![id] = Written(@, entry.transactionStatus)]
     /\ pc' = [pc EXCEPT ![id] = "aborted"]

\* await file.arrayBuffer() is over, and the binary File is created.
ReadFile(id) ==
  /\ pc[id] = "read"
  /\ \E outcome \in ReadOutcomes :
       CASE outcome = "ok" ->
              /\ pc' = [pc EXCEPT ![id] = "digest"]
              /\ UNCHANGED <<cur, entries, txTrace>>
         [] outcome = "rejectError" -> Abort(id, <<MsgFileUnreadable>>)
         [] outcome = "rejectOther" -> Abort(id, <<MsgReadFallback>>)
         [] outcome = "fileCtorOther" -> Abort(id, <<MsgConvertFallback>>)
  /\ UNCHANGED <<idVars, clearedInFlight, completedDocuments, documentVersion, walletAddr, nextId,
                 sub, confirmedCalls>>

\* await computeDigestsFromBuffer(...) is over (a failure is only logged);
\* the entry becomes "success", attemptTransactionSignature marks it
\* "pending" and, when there is a hash, calls submitNotarizationTransaction.
ComputeDigests(id) ==
  /\ pc[id] = "digest"
  /\ \E outcome \in DigestOutcomes :
       LET hash == arrayBufferToHex(Sha256Of(cur[id].file))
           computedBinHash == IF outcome = "ok" THEN hash ELSE cur[id].binHash
           digested == IF outcome = "ok"
                       THEN Merge(cur[id], [checksum |-> Sha1Of(cur[id].file), binHash |-> hash])
                       ELSE cur[id]
           success == Merge(digested, [status |-> "success", progress |-> FULL_PROGRESS])
           pending == Merge(success, [ transactionStatus |-> "pending",
                                       transactionError |-> NullStr,
                                       transactionUrl |-> None ])
           documentHashHex == IF computedBinHash # NullStr THEN computedBinHash
                              ELSE pending.binHash
           noHash == Merge(pending,
                       [ transactionStatus |-> "error",
                         transactionError |-> <<MsgHashUnavailable>>,
                         transactionHash |-> None, transactionUrl |-> None ])
           frame == StartSubmit("uploader", pending.notaryAddress, documentHashHex,
                                pending.version,
                                Num(DEFAULT_HASH_VERSION), "confirmed")
           thrown == Merge(pending, AfterSubmitUpdates(frame.outcome))
           pendingTrace == Written(txTrace[id], "pending")
       IN IF documentHashHex = NullStr
          THEN /\ cur' = [cur EXCEPT ![id] = noHash]
               /\ entries' = ReplaceEntry(entries, id)
               /\ txTrace' = [txTrace EXCEPT ![id] = Written(pendingTrace, "error")]
               /\ pc' = [pc EXCEPT ![id] = "finish"]
               /\ UNCHANGED sub
          ELSE IF frame.outcome # Null
          THEN /\ cur' = [cur EXCEPT ![id] = thrown]
               /\ entries' = ReplaceEntry(entries, id)
               /\ txTrace' = [txTrace EXCEPT
                                ![id] = Written(pendingTrace, thrown.transactionStatus)]
               /\ pc' = [pc EXCEPT ![id] = "finish"]
               /\ sub' = [sub EXCEPT ![id] = frame]
          ELSE /\ cur' = [cur EXCEPT ![id] = pending]
               /\ entries' = ReplaceEntry(entries, id)
               /\ txTrace' = [txTrace EXCEPT ![id] = pendingTrace]
               /\ pc' = [pc EXCEPT ![id] = "blockhash"]
               /\ sub' = [sub EXCEPT ![id] = frame]
  /\ UNCHANGED <<idVars, clearedInFlight, completedDocuments, documentVersion, walletAddr, nextId,
                 confirmedCalls>>

\* The end of convertEntry: the document joins the completed documents, the
\* entry leaves the live entries, and a confirmed document is announced.
Finish(id) ==
  /\ pc[id] = "finish"
  /\ LET documentChange == mapEntryToDocumentChange(cur[id])
     IN /\ completedDocuments' =
             Append(SelectSeq(completedDocuments,
                              LAMBDA document :
                                mapEntryToDocumentChange(cur[document]).id # cur[id].id),
                    id)
        /\ entries' = RemoveEntry(entries, id)
        /\ confirmedCalls' =
             [confirmedCalls EXCEPT
                ![id] = IF documentChange.transactionStatus = "confirmed" THEN @ + 1 ELSE @]
  /\ pc' = [pc EXCEPT ![id] = "done"]
  /\ UNCHANGED <<idVars, clearedInFlight, documentVersion, walletAddr, nextId, cur, sub, txTrace>>

\* convertEntry has started for the entry and has not reached its end.
InFlight(id) ==
  pc[id] \in {"read", "digest", "blockhash", "pda", "sign", "send", "poll", "wait", "finish"}

clearEntry(id) ==
  /\ \E k \in 1..Len(entries) : entries[k] = id
  /\ entries' = RemoveEntry(entries, id)
  /\ clearedInFlight' = [clearedInFlight EXCEPT ![id] = @ \/ InFlight(id)]
  /\ UNCHANGED <<idVars, completedDocuments, documentVersion, walletAddr, nextId,
                 pc, cur, sub, txTrace, confirmedCalls>>

ClearEntry == \E id \in Ids : clearEntry(id)

clearAll ==
  /\ entries # <<>>
  /\ entries' = <<>>
  /\ clearedInFlight' =
       [i \in Ids |->
          clearedInFlight[i] \/ (InFlight(i) /\ \E k \in 1..Len(entries) : entries[k] = i)]
  /\ UNCHANGED <<idVars, completedDocuments, documentVersion, walletAddr, nextId,
                 pc, cur, sub, txTrace, confirmedCalls>>

setDocumentVersion(value) ==
  /\ documentVersion' = value
  /\ UNCHANGED <<idVars, entries, completedDocuments, walletAddr, nextId, pipeVars>>

SetDocumentVersion == \E value \in VersionInputs : setDocumentVersion(value)

\* The wallet context: connect() resolved with an address.
WalletConnects ==
  /\ walletAddr = NullStr
  /\ walletAddr' = NotaryA
  /\ UNCHANGED <<idVars, entries, completedDocuments, documentVersion, nextId, pipeVars>>

\* The wallet context: disconnect(), or the provider's disconnect event.
WalletDisconnects ==
  /\ walletAddr # NullStr
  /\ walletAddr' = NullStr
  /\ UNCHANGED <<idVars, entries, completedDocuments, documentVersion, nextId, pipeVars>>

\* A caller other than the uploader calls submitNotarizationTransaction.
DirectSubmit ==
  /\ pc[1] = "unstaged"
  /\ \E hashHex \in HashArgs, version \in VersionArgs, hashVersion \in HashVersionArgs,
        commitment \in Commitments :
       LET frame == StartSubmit("direct", NotaryA, hashHex, version, hashVersion,
                                commitment)
       IN /\ sub' = [sub EXCEPT ![1] = frame]
          /\ pc' = [pc EXCEPT ![1] = IF frame.outcome # Null THEN "returned" ELSE "blockhash"]
  /\ UNCHANGED <<idVars, clearedInFlight, hookVars, cur, txTrace, confirmedCalls>>

\* ------------------------------------------------------- identifier checks
NotaryInputs == {<<"A">>, NotaryA, <<"a", "_", "b">>, <<>>}
HashInputs ==
  { ValidHashLower,
    ValidHashUpper,
    SubSeq(ValidHashLower, 1, HASH_HEX_LENGTH - 1),
    [i \in 1..HASH_HEX_LENGTH |-> IF i = 3 THEN "g" ELSE "1"],
    [i \in 1..HASH_HEX_LENGTH |-> IF i = 9 THEN "_" ELSE "c"] }
IdVersionInputs ==
  {Num(n) : n \in MIN_VERSION..MAX_VERSION} \cup {Num(-1), Num(256), Fin(3), NaN}

NoParts == [notary |-> <<>>, hash |-> <<>>, version |-> Num(0)]

Compose ==
  /\ idPc = "start"
  /\ idStr' = composeDocumentIdentifier(idParts)
  /\ idPc' = "composed"
  /\ UNCHANGED <<idParts, idOut, fnVars, clientVars, walletVars, hookVars, pipeVars>>

Parse ==
  /\ idPc = "composed"
  /\ idOut' = parseDocumentIdentifier(idStr)
  /\ idPc' = "parsed"
  /\ UNCHANGED <<idParts, idStr, fnVars, clientVars, walletVars, hookVars, pipeVars>>

\* --------------------------------------------------------- formatVersion
MsgNotSet == <<"N", "o", "t", " ", "s", "e", "t">>

\* value + 1 for a number.
PlusOne(value) == IF NumberIsFinite(value) THEN Fin(value.h + 2) ELSE value

\* The same without the increment.
formatVersionAsStored(value) ==
  IF value = Null THEN MsgNotSet ELSE NumberToString(value)

formatVersion(value) ==
  IF value = Null THEN MsgNotSet ELSE NumberToString(PlusOne(value))

\* ------------------------------------------------------------ single calls
\* One call of one exported function, with arguments drawn from the sets
\* below; fnPc names the function, fnArgs the arguments, fnOut the outcome.
NoCall == [none |-> TRUE]
HashBytesInputs ==
  {Sha256Of(1), Sha256Of(2), SubSeq(Sha256Of(1), 1, DOCUMENT_HASH_BYTE_LENGTH - 1)}
DocumentNameInputs == {<<"a">>, <<" ", "a", "b", " ">>, <<" ">>, <<>>, <<"a", EAcute>>}
U8Inputs == {Num(0), Num(7), Num(255), Num(256), Num(-1), Fin(3), NaN}

Called(name, args, out) ==
  /\ fnPc' = name
  /\ fnArgs' = args
  /\ fnOut' = out
  /\ UNCHANGED <<idPc, idParts, idStr, idOut, clientVars, walletVars, hookVars, pipeVars>>

CallCreateInstruction ==
  /\ fnPc = "idle"
  /\ \E args \in [documentHash : HashBytesInputs, documentName : DocumentNameInputs,
                   hashVersion : HashVersionArgs, version : U8Inputs] :
       Called("getCreateNotarizationInstruction", args,
              getCreateNotarizationInstruction(args))

CallUpdateInstruction ==
  /\ fnPc = "idle"
  /\ \E args \in [oldDocumentHash : HashBytesInputs, newDocumentHash : HashBytesInputs,
                   oldVersion : U8Inputs, newVersion : U8Inputs,
                   hashVersion : HashVersionArgs] :
       Called("getUpdateNotarizationInstruction", args,
              getUpdateNotarizationInstruction(args))

\* Identifier texts given to parseDocumentIdentifier: three parts with any
\* version text, and texts of two and of four parts.
RawVersionInputs ==
  { <<"1", "2">>, <<"2", "5", "5">>, <<"0">>, <<"2", "5", "6">>, <<"1", "2", "a", "b", "c">>,
    <<"1", ".", "5">>, <<" ", "7">>, <<"-", "1">>, <<"a", "b", "c">>, <<>> }
IdentifierInputs ==
  { notary \o <<DOCUMENT_IDENTIFIER_SEPARATOR>> \o hash
      \o <<DOCUMENT_IDENTIFIER_SEPARATOR>> \o raw :
      notary \in {NotaryA, <<>>}, hash \in HashInputs, raw \in RawVersionInputs }
    \cup { NotaryA \o <<DOCUMENT_IDENTIFIER_SEPARATOR>> \o ValidHashLower,
           NotaryA \o <<DOCUMENT_IDENTIFIER_SEPARATOR>> \o ValidHashLower
             \o <<DOCUMENT_IDENTIFIER_SEPARATOR>> \o <<"1">>
             \o <<DOCUMENT_IDENTIFIER_SEPARATOR>> \o <<"2">> }

CallParseIdentifier ==
  /\ fnPc = "idle"
  /\ \E identifier \in IdentifierInputs :
       Called("parseDocumentIdentifier", [identifier |-> identifier],
              parseDocumentIdentifier(identifier))

\* Account data given to decodeNotarizationAccount: whole accounts with a
\* timestamp of 0, 66051 or -2, a name of 0 to 4 bytes, and 0 to 4 bytes after
\* the name; every prefix of one of them that ends at a field boundary, one
\* byte before it or one byte after it; and accounts whose name length
\* announces more bytes than there are.
TimestampBytesInputs ==
  { <<0, 0, 0, 0, 0, 0, 0, 0>>, <<3, 2, 1, 0, 0, 0, 0, 0>>,
    <<254, 255, 255, 255, 255, 255, 255, 255>> }
NameBytesInputs == {<<>>, <<97>>, <<32, 97, 195, 169>>, <<195, 97>>}
TailBytesInputs == {<<>>, <<254>>, <<254, 1, 9>>, <<254, 1, 9, 77>>}
AccountBytes(timestamp, version, lengthPrefix, name, tail) ==
  <<1, 2, 3, 4, 5, 6, 7, 8>> \o Sha256Of(1) \o Sha256Of(2) \o timestamp \o <<version>>
    \o lengthPrefix \o name \o tail
WholeAccounts ==
  { AccountBytes(timestamp, version, Uint32LE(Len(name)), name, tail) :
      timestamp \in TimestampBytesInputs, version \in {0, 255},
      name \in NameBytesInputs, tail \in TailBytesInputs }
CutPoints == {0, 7, 8, 39, 40, 71, 72, 73, 79, 80, 81, 82, 84, 85, 86, 88}
AccountDataInputs ==
  WholeAccounts
    \cup { SubSeq(AccountBytes(<<3, 2, 1, 0, 0, 0, 0, 0>>, 7, Uint32LE(4), <<32, 97, 195, 169>>,
                             <<254, 1, 9>>), 1, cut) : cut \in CutPoints }
    \cup { AccountBytes(<<0, 0, 0, 0, 0, 0, 0, 0>>, 7, lengthPrefix, <<97, 98>>, <<>>) :
             lengthPrefix \in {<<3, 0, 0, 0>>, <<0, 0, 0, 2>>, <<0, 1, 0, 0>>} }

CallDecodeAccount ==
  /\ fnPc = "idle"
  /\ \E data \in AccountDataInputs :
       Called("decodeNotarizationAccount", [data |-> data], decodeNotarizationAccount(data))

\* Messages given to extractCustomProgramErrorCode: the pattern with a
\* hexadecimal or a decimal code, alone, inside a longer text, in capitals,
\* without the space, with two spaces, twice; the pattern without a code or
\* without its first word; no message.
CodeTexts ==
  { <<"0", "x", "1">>, <<"0", "x", "1", "f">>, <<"0", "x", "1", "0">>, <<"0", "X", "1", "F">>,
    <<"#", "1", "2">>, <<"#", "0">>, <<"#", "7", "a">>, <<"0", "x">>, <<"#">>,
    <<"1", "2">>, <<"0", "x", "z", "1">> }
CodeMessageInputs ==
  { before \o CustomProgramErrorText \o gap \o code \o after :
      before \in {<<>>, <<"a", " ">>}, gap \in {<<" ">>, <<>>, <<" ", " ">>},
      code \in CodeTexts, after \in {<<>>, <<" ", "b">>} }
    \cup { <<"C">> \o Tail(CustomProgramErrorText) \o <<" ">> \o code : code \in CodeTexts }
    \cup { SubSeq(CustomProgramErrorText, 8, Len(CustomProgramErrorText)) \o <<" ">> \o code :
             code \in CodeTexts }
    \cup { CustomProgramErrorText \o <<" ", "#", "7", " ">> \o CustomProgramErrorText
             \o <<" ", "0", "x", "1">>,
           CustomProgramErrorText \o <<" ", "#", " ">> \o CustomProgramErrorText
             \o <<" ", "0", "x", "a">>,
           <<"a", "b">>, <<>>, NullStr }

CallExtractCode ==
  /\ fnPc = "idle"
  /\ \E message \in CodeMessageInputs :
       Called("extractCustomProgramErrorCode", [message |-> message],
              extractCustomProgramErrorCode(message))

\* Versions given to formatVersion: null, every stored version, 1.5 and NaN.
FormatVersionInputs == {Null, Fin(3), NaN} \cup {Num(v) : v \in MIN_VERSION..MAX_VERSION}

CallFormatVersion ==
  /\ fnPc = "idle"
  /\ \E value \in FormatVersionInputs :
       Called("formatVersion", [value |-> value], formatVersion(value))

CallHasSufficientConfirmation ==
  /\ fnPc = "idle"
  /\ \E status \in StatusInputs, commitment \in Commitments :
       Called("hasSufficientConfirmation", [status |-> status, commitment |-> commitment],
              hasSufficientConfirmation(status, commitment))

\* ------------------------------------------------------- getSolanaClient
\* import.meta.env.VITE_SOLANA_CLUSTER ?? "devnet", for an environment that
\* does not set the variable.
DEFAULT_CLUSTER == "devnet"
ClusterInputs == {DEFAULT_CLUSTER, "mainnet"}

\* createSolanaClient belongs to the gill library. The urlOrMoniker property
\* of the client it returns is either the text it was given or the address
\* the library made of it (the callers of this repository handle a property
\* that is not a string: inferClusterFromUrl, deriveExplorerCluster).
CreatedUrlOrMonikers(urlOrMoniker) ==
  {urlOrMoniker, "https://api." \o urlOrMoniker \o ".solana.com/"}

InitClient ==
  /\ cachedClient = 0
  /\ clients = <<>>
  /\ clientCalls = <<>>

\* getSolanaClient(urlOrMoniker = DEFAULT_CLUSTER)
getSolanaClient(urlOrMoniker) ==
  /\ Len(clientCalls) < MaxClientCalls
  /\ IF cachedClient # 0 /\ urlOrMoniker = clients[cachedClient].urlOrMoniker
     THEN /\ clientCalls' = Append(clientCalls, [urlOrMoniker |-> urlOrMoniker,
                                                  client |-> cachedClient])
          /\ UNCHANGED <<cachedClient, clients>>
     ELSE \E property \in CreatedUrlOrMonikers(urlOrMoniker) :
            LET client == Len(clients) + 1
            IN /\ clients' = Append(clients, [urlOrMoniker |-> property])
               /\ cachedClient' = IF urlOrMoniker = DEFAULT_CLUSTER THEN client
                                  ELSE cachedClient
               /\ clientCalls' = Append(clientCalls, [urlOrMoniker |-> urlOrMoniker,
                                                       client |-> client])
  /\ UNCHANGED <<idPc, idParts, idStr, idOut, fnVars, walletVars, hookVars, pipeVars>>

GetSolanaClient == \E urlOrMoniker \in ClusterInputs : getSolanaClient(urlOrMoniker)

\* --------------------------------------------------- SolanaWalletProvider
MsgNoWalletDetected ==
  "No Solana wallet detected. Install Phantom or another Wallet Standard provider."
MsgUnableToConnect == "Unable to connect to the Solana wallet."
MsgProviderRejected == "User rejected the request."

\* The calls of connect() and disconnect(): kind is "none" for a call not
\* made yet, at is "idle", "awaiting" (the provider) or "settled", and
\* overlapped tells that a connect() was awaiting the provider at some moment
\* of a disconnect().
WalletCallIds == 1..MaxWalletCalls
NoWalletCall == [kind |-> "none", at |-> "idle", overlapped |-> FALSE]

ConnectAwaiting(calls) ==
  \E c \in WalletCallIds : calls[c].kind = "connect" /\ calls[c].at = "awaiting"

\* Every disconnect() that awaits the provider has now seen a connect().
NoteConnect(calls) ==
  [c \in WalletCallIds |->
     IF calls[c].kind = "disconnect" /\ calls[c].at = "awaiting"
     THEN [calls[c] EXCEPT !.overlapped = TRUE] ELSE calls[c]]

InitWallet ==
  /\ walletState = [ mounted |-> FALSE, provider |-> FALSE, address |-> NullStr,
                     isConnecting |-> FALSE, connectError |-> NullStr ]
  /\ walletCalls = [c \in WalletCallIds |-> NoWalletCall]

WalletUnchanged ==
  UNCHANGED <<idPc, idParts, idStr, idOut, fnVars, clientVars, hookVars, pipeVars>>

\* The mount effect: setProvider(window.solana ?? null).
DetectProvider ==
  /\ ~walletState.mounted
  /\ \E detected \in BOOLEAN :
       walletState' = [walletState EXCEPT !.mounted = TRUE, !.provider = detected]
  /\ UNCHANGED walletCalls
  /\ WalletUnchanged

\* connect() up to its await.
connect(c) ==
  /\ walletState.mounted
  /\ walletCalls[c].kind = "none"
  /\ IF ~walletState.provider
     THEN /\ walletState' = [walletState EXCEPT !.connectError = <<MsgNoWalletDetected>>]
          /\ walletCalls' = [walletCalls EXCEPT ![c] = [kind |-> "connect", at |-> "settled",
                                                         overlapped |-> FALSE]]
     ELSE /\ walletState' = [walletState EXCEPT !.connectError = NullStr,
                                                 !.isConnecting = TRUE]
          /\ walletCalls' = [NoteConnect(walletCalls) EXCEPT
                               ![c] = [kind |-> "connect", at |-> "awaiting",
                                       overlapped |-> FALSE]]
  /\ WalletUnchanged

\* provider.connect(...) resolved: setAddress, then setIsConnecting(false).
ConnectResolves(c) ==
  /\ walletCalls[c].kind = "connect" /\ walletCalls[c].at = "awaiting"
  /\ walletState' = [walletState EXCEPT !.address = NotaryA, !.isConnecting = FALSE]
  /\ walletCalls' = [walletCalls EXCEPT ![c].at = "settled"]
  /\ WalletUnchanged

\* provider.connect(...) rejected, with an Error or with something else.
ConnectRejects(c) ==
  /\ walletCalls[c].kind = "connect" /\ walletCalls[c].at = "awaiting"
  /\ \E message \in {MsgProviderRejected, MsgUnableToConnect} :
       walletState' = [walletState EXCEPT !.connectError = <<message>>,
                                          !.isConnecting = FALSE]
  /\ walletCalls' = [walletCalls EXCEPT ![c].at = "settled"]
  /\ WalletUnchanged

\* disconnect() up to its await.
disconnect(c) ==
  /\ walletState.mounted
  /\ walletCalls[c].kind = "none"
  /\ walletState' = [walletState EXCEPT !.connectError = NullStr]
  /\ walletCalls' = [walletCalls EXCEPT
                       ![c] = [kind |-> "disconnect",
                               at |-> IF walletState.provider THEN "awaiting" ELSE "settled",
                               overlapped |-> ConnectAwaiting(walletCalls)]]
  /\ WalletUnchanged

\* A variant whose setAddress(null) is skipped when the provider rejects.
DisconnectSettlesInTry(c) ==
  /\ walletCalls[c].kind = "disconnect" /\ walletCalls[c].at = "awaiting"
  /\ \E resolved \in BOOLEAN :
       walletState' = IF resolved THEN [walletState EXCEPT !.address = NullStr]
                      ELSE walletState
  /\ walletCalls' = [walletCalls EXCEPT ![c].at = "settled"]
  /\ WalletUnchanged

\* provider.disconnect?.() resolved or rejected: setAddress(null) either way.
DisconnectSettles(c) ==
  /\ walletCalls[c].kind = "disconnect" /\ walletCalls[c].at = "awaiting"
  /\ walletState' = [walletState EXCEPT !.address = NullStr]
  /\ walletCalls' = [walletCalls EXCEPT ![c].at = "settled"]
  /\ WalletUnchanged

\* The provider emits "disconnect": handleDisconnect.
handleDisconnect ==
  /\ walletState.provider
  /\ walletState.address # NullStr
  /\ walletState' = [walletState EXCEPT !.address = NullStr]
  /\ UNCHANGED walletCalls
  /\ WalletUnchanged

\* ------------------------------------------------------ the specifications
InitHook ==
  /\ InitClient
  /\ InitWallet
  /\ entries = <<>>
  /\ completedDocuments = <<>>
  /\ documentVersion = clampVersion(Num(DEFAULT_INITIAL_VERSION))
  /\ walletAddr = NullStr
  /\ nextId = 1
  /\ pc = [i \in Ids |-> "unstaged"]
  /\ cur = [i \in Ids |-> NoEntry]
  /\ sub = [i \in Ids |-> IdleFrame]
  /\ txTrace = [i \in Ids |-> <<"idle">>]
  /\ confirmedCalls = [i \in Ids |-> 0]
  /\ clearedInFlight = [i \in Ids |-> FALSE]

Init ==
  /\ InitHook
  /\ idPc = "off"
  /\ idParts = NoParts
  /\ idStr = <<>>
  /\ idOut = Null
  /\ fnPc = "off"
  /\ fnArgs = NoCall
  /\ fnOut = NoCall

SubmitStep(id) ==
  \/ GetLatestBlockhash(id)
  \/ FindNotarizationPda(id)
  \/ SignResolves(id)
  \/ SignRejects(id)
  \/ SendResolves(id)
  \/ SendRejects(id)
  \/ StatusArrives(id)
  \/ StatusQueryThrows(id)
  \/ DelayElapses(id)

\* The uploader hook with its pipelines.
Next ==
  \/ StageEntries
  \/ SetDocumentVersion
  \/ WalletConnects
  \/ WalletDisconnects
  \/ ClearEntry
  \/ clearAll
  \/ \E id \in Ids : ReadFile(id)
  \/ \E id \in Ids : ComputeDigests(id)
  \/ \E id \in Ids : SubmitStep(id)
  \/ \E id \in Ids : Finish(id)

Spec == Init /\ [][Next]_vars

\* Calls of getSolanaClient, in any order.
SpecClient == Init /\ [][GetSolanaClient]_vars

\* The wallet context: the mount effect, calls of connect() and disconnect()
\* that may overlap, and the provider's answers and events.
NextWallet ==
  \/ DetectProvider
  \/ \E c \in WalletCallIds : connect(c)
  \/ \E c \in WalletCallIds : ConnectResolves(c)
  \/ \E c \in WalletCallIds : ConnectRejects(c)
  \/ \E c \in WalletCallIds : disconnect(c)
  \/ \E c \in WalletCallIds : DisconnectSettles(c)
  \/ handleDisconnect

SpecWallet == Init /\ [][NextWallet]_vars

\* The places where convertEntry waits for the digests or inside the call of
\* submitNotarizationTransaction.
CallAwaitPoints == {"digest", "blockhash", "pda", "sign", "send", "poll", "wait"}

\* The same, with every awaited promise of a pipeline settling in the end:
\* the file read and the last state updates happen, and no pipeline stays for
\* ever at the digests or at a request, signature or timer of the call. (The
\* step of such a point is enabled exactly while pc is at the point and
\* leaves it, so the recurrence is weak fairness of ComputeDigests and of
\* SubmitStep.)
SpecFair ==
  /\ Spec
  /\ \A id \in Ids :
       /\ WF_vars(ReadFile(id))
       /\ WF_vars(Finish(id))
       /\ \A point \in CallAwaitPoints : []<>(pc[id] # point)

\* submitNotarizationTransaction called directly, with any arguments.
NextSubmit ==
  \/ DirectSubmit
  \/ \E id \in Ids : SubmitStep(id)

SpecSubmit == Init /\ [][NextSubmit]_vars

\* The same, with every awaited promise of a call settling in the end: the
\* RPC requests, the wallet's signature and the timer of wait(delayMs).
SpecSubmitFair ==
  SpecSubmit /\ \A id \in Ids : WF_vars(SubmitStep(id))

\* composeDocumentIdentifier followed by parseDocumentIdentifier.
InitId ==
  /\ InitHook
  /\ idPc = "start"
  /\ idParts \in [notary : NotaryInputs, hash : HashInputs, version : IdVersionInputs]
  /\ idStr = <<>>
  /\ idOut = Null
  /\ fnPc = "off"
  /\ fnArgs = NoCall
  /\ fnOut = NoCall

NextId == Compose \/ Parse

SpecId == InitId /\ [][NextId]_vars

\* Single calls of the exported functions.
InitCalls ==
  /\ InitHook
  /\ idPc = "off"
  /\ idParts = NoParts
  /\ idStr = <<>>
  /\ idOut = Null
  /\ fnPc = "idle"
  /\ fnArgs = NoCall
  /\ fnOut = NoCall

NextCalls ==
  \/ CallCreateInstruction
  \/ CallUpdateInstruction
  \/ CallParseIdentifier
  \/ CallHasSufficientConfirmation
  \/ CallDecodeAccount
  \/ CallExtractCode
  \/ CallFormatVersion

SpecCalls == InitCalls /\ [][NextCalls]_vars

\* ----------------------------------------- the simulation-error extractors
\* An error object graph: the objects 1..MaxNodes, each an Error (which has
\* a message) or a plain object that may carry a string message or a string
\* err, every one with a logs array of one line and with the properties
\* transactionError, cause, data and value absent or referring to an object
\* of the graph. The argument of a call is object 1.
Absent == 0
Nodes == 1..MaxNodes
NodeKinds == {"Error", "object", "objectWithMessage", "objectWithErr"}
ErrorGraphs ==
  [Nodes -> [kind : NodeKinds, transactionError : 0..MaxNodes, cause : 0..MaxNodes,
             data : 0..MaxNodes, value : 0..MaxNodes]]
MessageOf(node) == <<"m", DigitChars[node + 1]>>
ErrOf(node) == <<"e", DigitChars[node + 1]>>
LogOf(node) == <<"l", DigitChars[node + 1]>>

\* What a call gave back and the visited set it left. A call made while the
\* same call (same object, same visited set) is still in progress repeats it
\* step for step, so the recursion never returns: the result is marked
\* diverged (the engine ends it with a RangeError when the stack is full).
Result(out, visited) == [out |-> out, visited |-> visited, diverged |-> FALSE]
Diverges(visited) == [out |-> NullStr, visited |-> visited, diverged |-> TRUE]
Settled(result) == result.diverged \/ result.out # NullStr

RECURSIVE extractSimulationMessageInternal(_, _, _, _)
extractSimulationMessageInternal(graph, error, visited, active) ==
  IF error = Absent THEN Result(NullStr, visited)
  ELSE IF <<error, visited>> \in active THEN Diverges(visited)
  ELSE
    LET node == graph[error]
        inner == active \cup {<<error, visited>>}
    IN IF node.kind = "Error"
       THEN LET transactionMessage ==
                  extractSimulationMessageInternal(graph, node.transactionError, visited, inner)
            IN IF Settled(transactionMessage) THEN transactionMessage
               ELSE LET causeMessage ==
                          extractSimulationMessageInternal(graph, node.cause,
                                                           transactionMessage.visited, inner)
                    IN IF Settled(causeMessage) THEN causeMessage
                       ELSE Result(MessageOf(error), causeMessage.visited)
       ELSE IF error \in visited THEN Result(NullStr, visited)
       ELSE IF node.kind = "objectWithMessage"
       THEN Result(MessageOf(error), visited \cup {error})
       ELSE LET transactionMessage ==
                  extractSimulationMessageInternal(graph, node.transactionError,
                                                   visited \cup {error}, inner)
            IN IF Settled(transactionMessage) THEN transactionMessage
               ELSE IF node.kind = "objectWithErr"
               THEN Result(ErrOf(error), transactionMessage.visited)
               ELSE LET dataMessage ==
                          extractSimulationMessageInternal(graph, node.data,
                                                           transactionMessage.visited, inner)
                    IN IF Settled(dataMessage) THEN dataMessage
                       ELSE LET valueMessage ==
                                  extractSimulationMessageInternal(graph, node.value,
                                                                   dataMessage.visited, inner)
                            IN IF Settled(valueMessage) THEN valueMessage
                               ELSE extractSimulationMessageInternal(graph, node.cause,
                                                                     valueMessage.visited, inner)

extractSimulationMessage(graph) == extractSimulationMessageInternal(graph, 1, {}, {})

\* collectSimulationLogs: out is the set of log lines collected so far.
RECURSIVE collectSimulationLogs(_, _, _, _, _)
collectSimulationLogs(graph, value, logs, visited, active) ==
  IF value = Absent \/ value \in visited THEN Result(logs, visited)
  ELSE IF <<value, visited>> \in active THEN [Diverges(visited) EXCEPT !.out = logs]
  ELSE
    LET node == graph[value]
        inner == active \cup {<<value, visited>>}
        afterTransactionError ==
          collectSimulationLogs(graph, node.transactionError, logs \cup {LogOf(value)},
                                visited \cup {value}, inner)
        afterData ==
          IF afterTransactionError.diverged THEN afterTransactionError
          ELSE collectSimulationLogs(graph, node.data, afterTransactionError.out,
                                     afterTransactionError.visited, inner)
        afterValue ==
          IF afterData.diverged THEN afterData
          ELSE collectSimulationLogs(graph, node.value, afterData.out, afterData.visited, inner)
    IN IF afterValue.diverged THEN afterValue
       ELSE collectSimulationLogs(graph, node.cause, afterValue.out, afterValue.visited, inner)

extractSimulationLogs(graph) == collectSimulationLogs(graph, 1, {}, {}, {})

RECURSIVE extractSimulationErrorDetailsInternal(_, _, _, _)
extractSimulationErrorDetailsInternal(graph, error, visited, active) ==
  IF error = Absent \/ error \in visited THEN Result(NullStr, visited)
  ELSE IF <<error, visited>> \in active THEN Diverges(visited)
  ELSE
    LET node == graph[error]
        inner == active \cup {<<error, visited>>}
    IN IF node.kind = "objectWithErr" THEN Result(ErrOf(error), visited \cup {error})
       ELSE LET transactionMessage ==
                  extractSimulationErrorDetailsInternal(graph, node.transactionError,
                                                        visited \cup {error}, inner)
            IN IF Settled(transactionMessage) THEN transactionMessage
               ELSE LET dataMessage ==
                          extractSimulationErrorDetailsInternal(graph, node.data,
                                                                transactionMessage.visited, inner)
                    IN IF Settled(dataMessage) THEN dataMessage
                       ELSE LET valueMessage ==
                                  extractSimulationErrorDetailsInternal(graph, node.value,
                                                                        dataMessage.visited, inner)
                            IN IF Settled(valueMessage) THEN valueMessage
                               ELSE extractSimulationErrorDetailsInternal(
                                      graph, node.cause, valueMessage.visited, inner)

extractSimulationErrorDetails(graph) == extractSimulationErrorDetailsInternal(graph, 1, {}, {})

CallExtractSimulationMessage ==
  /\ fnPc = "idle"
  /\ \E graph \in ErrorGraphs :
       Called("extractSimulationMessage", [graph |-> graph], extractSimulationMessage(graph))

CallExtractSimulationLogs ==
  /\ fnPc = "idle"
  /\ \E graph \in ErrorGraphs :
       Called("extractSimulationLogs", [graph |-> graph], extractSimulationLogs(graph))

CallExtractSimulationErrorDetails ==
  /\ fnPc = "idle"
  /\ \E graph \in ErrorGraphs :
       Called("extractSimulationErrorDetails", [graph |-> graph],
              extractSimulationErrorDetails(graph))

NextExtract ==
  \/ CallExtractSimulationMessage
  \/ CallExtractSimulationLogs
  \/ CallExtractSimulationErrorDetails

SpecExtract == InitCalls /\ [][NextExtract]_vars

\* ================================================================== claims
Min(a, b) == IF a < b THEN a ELSE b

RECURSIVE Pow2(_)
Pow2(n) == IF n = 0 THEN 1 ELSE 2 * Pow2(n - 1)

\* A valid triple: a non-empty notary without separator, a hash of 64 hex
\* characters, a version that is an integer in 0..255.
ValidParts(parts) ==
  /\ parts.notary # <<>>
  /\ \A i \in 1..Len(parts.notary) : parts.notary[i] # DOCUMENT_IDENTIFIER_SEPARATOR
  /\ IsHexHash(parts.hash)
  /\ IsU8(parts.version)

\* C1: parsing the identifier composed from a valid triple gives back the
\* triple, equal in notary, hash and version.
C1_RoundTrip ==
  (idPc = "parsed" /\ ValidParts(idParts)) =>
    /\ idOut # Null
    /\ idOut.notary = idParts.notary
    /\ idOut.hash = idParts.hash
    /\ idOut.version = idParts.version

C1_Witness ==
  /\ idPc = "parsed"
  /\ ValidParts(idParts)
  /\ idParts.hash = ValidHashUpper
  /\ idParts.version = Num(MAX_VERSION)
  /\ idOut = idParts

\* The transactionStatus values an entry may have been given, in order, as
\* the claim has it: idle, then pending, then one terminal status.
TerminalStatuses == {"confirmed", "cancelled", "error"}
TracesThroughPending ==
  {<<"idle">>, <<"idle", "pending">>} \cup {<<"idle", "pending", t>> : t \in TerminalStatuses}

\* C2 as stated: every entry's transactionStatus goes idle -> pending ->
\* (confirmed | cancelled | error), the terminal statuses being entered from
\* pending only and never left.
C2_OnlyThroughPending ==
  \A id \in Ids : txTrace[id] \in TracesThroughPending

\* C2 amended: as stated, except that error is also entered directly from
\* idle, when convertEntry gives up before any submission (finalizeWithError:
\* no wallet, unreadable file, failed conversion); the entry's
\* transactionStatus is the last status written.
C2_ThroughPendingOrAborted ==
  \A id \in Ids :
    /\ txTrace[id] \in TracesThroughPending \cup {<<"idle", "error">>}
    /\ (txTrace[id] = <<"idle", "error">>) <=> (pc[id] = "aborted")
    /\ pc[id] # "unstaged" => cur[id].transactionStatus = txTrace[id][Len(txTrace[id])]
    /\ pc[id] \in {"finish", "done"} => Len(txTrace[id]) = 3

C2_Witness ==
  \E a \in Ids, b \in Ids :
    /\ txTrace[a] = <<"idle", "error">> /\ pc[a] = "aborted"
    /\ txTrace[b] = <<"idle", "pending", "confirmed">> /\ pc[b] = "done"

\* C3: once the polling loop has received a finalized status without error,
\* it has returned true and submitNotarizationTransaction has returned the
\* signature and the explorer URL.
C3_FinalizedConfirms ==
  \A id \in Ids :
    sub[id].gotFinal =>
      /\ sub[id].polled = "true"
      /\ pc[id] = "returned"
      /\ sub[id].outcome = Returned(SignatureOf(id), getExplorerLink(SignatureOf(id)))

C3_Witness ==
  \E id \in Ids :
    /\ sub[id].gotFinal
    /\ sub[id].commitment = "finalized"
    /\ sub[id].queries = 3
    /\ sub[id].outcome # Null
    /\ sub[id].outcome.kind = "returned"

\* C4 as stated: when every status received carries an on-chain error, the
\* polling loop returns false after 5 queries.
C4_FailsAfterFiveAttempts ==
  \A id \in Ids :
    (sub[id].polled # "none" /\ sub[id].queries >= 1 /\ sub[id].allErr) =>
      (sub[id].polled = "false" /\ sub[id].queries = DEFAULT_MAX_ATTEMPTS)

\* C4 amended: when every status received carries an on-chain error, the
\* polling loop returns false on the first of them: after one query, without
\* waiting, and the call throws.
C4_FailsOnFirstError ==
  \A id \in Ids :
    (sub[id].polled # "none" /\ sub[id].queries >= 1 /\ sub[id].allErr) =>
      /\ sub[id].polled = "false"
      /\ sub[id].queries = 1
      /\ sub[id].delays = <<>>
      /\ sub[id].outcome.kind = "thrown"

C4_Witness ==
  \E id \in Ids :
    /\ sub[id].allErr
    /\ sub[id].queries = 1
    /\ sub[id].polled = "false"
    /\ sub[id].outcome.kind = "thrown"

\* C5: the polling loop issues at most 5 status queries, the k-th delay is
\* min(500 * 2^(k-1), 4000) ms, and no delay exceeds 4000 ms.
C5_BackoffSchedule ==
  \A id \in Ids :
    /\ sub[id].queries <= 5
    /\ Len(sub[id].delays) <= 5
    /\ sub[id].delayMs <= 4000
    /\ \A k \in 1..Len(sub[id].delays) :
         /\ sub[id].delays[k] = Min(500 * Pow2(k - 1), 4000)
         /\ sub[id].delays[k] <= 4000

C5_Witness ==
  \E id \in Ids :
    /\ sub[id].delays = <<500, 1000, 2000, 4000, 4000>>
    /\ sub[id].queries = 5
    /\ sub[id].polled = "false"

\* The message enhanceSendError tests: error.message, or String(error).
SendMessage(error) == IF error.isError THEN error.message ELSE <<MsgObjectString>>

\* C6 as stated: the status polling is entered only for a send failure
\* whose message matches the "simulation failed" pattern.
C6_PollsOnlySimulationFailures ==
  \A id \in Ids :
    sub[id].queries >= 1 =>
      /\ sub[id].sendError # Null
      /\ MessageMatchesSimulationFailed(SendMessage(sub[id].sendError))

\* C6 amended: the status polling is entered after every failure of
\* sendAndConfirmTransaction, whatever its message, and only then; the
\* pattern decides only whether the error thrown in the end is rewritten: a
\* failure that does not match is thrown as it is (wrapped into an Error
\* when it is none).
C6_PollsEverySendFailure ==
  \A id \in Ids :
    /\ (sub[id].sendError # Null) <=> (sub[id].queries >= 1)
    /\ sub[id].queries >= 1 => sub[id].sent = 1
    /\ (sub[id].polled = "false"
          /\ ~MessageMatchesSimulationFailed(SendMessage(sub[id].sendError))) =>
         /\ sub[id].outcome.kind = "thrown"
         /\ sub[id].outcome.error.message = SendMessage(sub[id].sendError)
         /\ sub[id].outcome.error.isError

C6_Witness ==
  \E id \in Ids :
    /\ sub[id].sendError # Null
    /\ ~MessageMatchesSimulationFailed(SendMessage(sub[id].sendError))
    /\ sub[id].queries = 2
    /\ sub[id].polled = "false"

\* A wallet rejection: code 4001, or a message that matches /reject/i.
IsWalletRejection(error) ==
  error.code = WALLET_REJECTION_CODE \/ MessageMatchesReject(error.message)

\* C7: a submission that failed with a wallet rejection leaves the entry
\* cancelled, never error, with no transactionError.
C7_RejectionCancels ==
  \A id \in Ids :
    (sub[id].caller = "uploader" /\ sub[id].outcome # Null
       /\ sub[id].outcome.kind = "thrown" /\ IsWalletRejection(sub[id].outcome.error)) =>
      /\ cur[id].transactionStatus = "cancelled"
      /\ cur[id].transactionError = NullStr

\* C8: sendAndConfirmTransaction is called only after the wallet returned a
\* fully signed transaction; after a rejected signature or a failed
\* assertion nothing is sent, no status is polled, and the call has thrown.
C8_SendsOnlyFullySigned ==
  \A id \in Ids :
    /\ sub[id].sent >= 1 => (sub[id].signed = "full" /\ sub[id].signReq = 1)
    /\ sub[id].queries >= 1 => sub[id].sent = 1
    /\ sub[id].signed \in {"partial", "rejected"} =>
         /\ sub[id].sent = 0
         /\ sub[id].queries = 0
         /\ pc[id] = "returned"
         /\ sub[id].outcome.kind = "thrown"

C8_Witness ==
  \E id \in Ids :
    /\ sub[id].signed = "partial"
    /\ sub[id].outcome.kind = "thrown"
    /\ sub[id].outcome.at = "assert"
    /\ sub[id].sent = 0

\* The call made no request: no RPC request, no signature request, nothing
\* sent; it threw at the validation and is over.
ThrewBeforeAnyRequest(id) ==
  /\ pc[id] = "returned"
  /\ sub[id].outcome # Null
  /\ sub[id].outcome.kind = "thrown"
  /\ sub[id].outcome.at = "validation"
  /\ sub[id].rpc = 0
  /\ sub[id].signReq = 0
  /\ sub[id].sent = 0
  /\ sub[id].queries = 0

\* C9 as stated: a call whose hash is not 64 hex characters, or whose
\* version or hashVersion is no integer in 0..255, throws before any request.
C9_InvalidArgumentsThrow ==
  \A id \in Ids :
    (sub[id].caller = "direct"
       /\ (~IsHexHash(sub[id].hashHex) \/ ~IsU8(sub[id].version)
             \/ ~IsU8(sub[id].hashVersion))) =>
      ThrewBeforeAnyRequest(id)

\* C9 amended: a call whose hash, once surrounding white space is trimmed,
\* is not 64 hex characters, or whose version or hashVersion is no integer
\* in 0..255, throws before any RPC request and any signature request, and
\* is not retried; every other call goes on to request the latest blockhash.
C9_InvalidTrimmedArgumentsThrow ==
  \A id \in Ids :
    sub[id].caller = "direct" =>
      IF ~IsHexHash(Trim(sub[id].hashHex)) \/ ~IsU8(sub[id].version)
           \/ ~IsU8(sub[id].hashVersion)
      THEN ThrewBeforeAnyRequest(id)
      ELSE sub[id].rpc >= 1

C9_Witness ==
  \E id \in Ids :
    /\ sub[id].caller = "direct"
    /\ Len(sub[id].hashHex) = HASH_HEX_LENGTH - 1
    /\ IsU8(sub[id].version)
    /\ ThrewBeforeAnyRequest(id)

\* C10: clampVersion gives an integer in 0..255 for every number, and every
\* version the uploader stores in an entry or passes to
\* submitNotarizationTransaction is an integer in 0..255.
C10_VersionsAreBytes ==
  /\ \A value \in ClampInputs \cup {documentVersion} : IsU8(clampVersion(value))
  /\ \A id \in Ids :
       /\ pc[id] # "unstaged" => IsU8(cur[id].version)
       /\ sub[id].caller = "uploader" => IsU8(sub[id].version)

C10_Witness ==
  \E id \in Ids :
    /\ documentVersion = Fin(3)
    /\ sub[id].caller = "uploader"
    /\ pc[id] = "sign"
    /\ sub[id].version = clampVersion(Fin(3))

\* C11: a call of getCreateNotarizationInstruction or
\* getUpdateNotarizationInstruction with a version, oldVersion, newVersion or
\* hashVersion that is no integer in 0..255 throws and yields no payload.
C11_BuildersRejectNonBytes ==
  /\ fnPc = "getCreateNotarizationInstruction" =>
       ((~IsU8(fnArgs.version) \/ ~IsU8(fnArgs.hashVersion)) => ~fnOut.ok)
  /\ fnPc = "getUpdateNotarizationInstruction" =>
       ((~IsU8(fnArgs.oldVersion) \/ ~IsU8(fnArgs.newVersion)
           \/ ~IsU8(fnArgs.hashVersion)) => ~fnOut.ok)

\* The identifier the strict validation describes: exactly three parts, a
\* non-empty notary, 64 lower-case hex characters, and a version text that
\* is a plain integer (digits only) in 0..255.
IsStrictIdentifier(identifier) ==
  LET parts == Split(identifier, DOCUMENT_IDENTIFIER_SEPARATOR)
  IN /\ Len(parts) = 3
     /\ parts[1] # <<>>
     /\ Len(parts[2]) = HASH_HEX_LENGTH
     /\ \A i \in 1..Len(parts[2]) : parts[2][i] \in LowerHexChars
     /\ parts[3] # <<>>
     /\ \A i \in 1..Len(parts[3]) : parts[3][i] \in Digits
     /\ IsU8(ParseInt10(parts[3]))

\* C12: parseDocumentIdentifier returns null for every identifier that is
\* not three parts with a non-empty notary, a hash of 64 lower-case hex
\* characters and a plain integer version in 0..255.
C12_ParseIsStrict ==
  (fnPc = "parseDocumentIdentifier" /\ ~IsStrictIdentifier(fnArgs.identifier)) =>
    fnOut = Null

\* C13: the address submitNotarizationTransaction derives for (notary,
\* hash, version) is the address getNotarizationAccountDetails derives for
\* the same three values.
C13_WriterAndReaderDeriveSameAddress ==
  \A id \in Ids :
    sub[id].notarizationAddress # NoAddress =>
      Ok(sub[id].notarizationAddress)
        \in getNotarizationAccountDetailsAddress(sub[id].notary, sub[id].hashHex,
                                                 sub[id].version)

\* The digest computation of the entry failed: its pipeline went past
\* computeDigestsFromBuffer without a hash (entries carry no hash before).
DigestFailed(id) ==
  pc[id] \in {"finish", "done"} /\ cur[id].binHash = NullStr

\* C14: an entry whose digest computation failed ends with status error and
\* transactionStatus error, and no transaction is submitted for it.
C14_DigestFailureIsTerminalError ==
  \A id \in Ids :
    DigestFailed(id) =>
      /\ cur[id].status = "error"
      /\ cur[id].transactionStatus = "error"
      /\ sub[id].caller = "none"

\* The confirmation level a status reports: its confirmationStatus, or,
\* when the RPC node sends none, finalized for a rooted transaction
\* (confirmations null), confirmed for one with confirmations, processed
\* otherwise.
ReportedLevel(status) ==
  IF status.confirmationStatus # None THEN status.confirmationStatus
  ELSE IF status.confirmations = NoConfirmations THEN "finalized"
  ELSE IF status.confirmations >= 1 THEN "confirmed"
  ELSE "processed"

\* The pairs <<level, commitment>> with level at least commitment under
\* processed < confirmed < finalized.
LevelMeetsCommitment ==
  { <<"processed", "processed">>,
    <<"confirmed", "processed">>, <<"confirmed", "confirmed">>,
    <<"finalized", "processed">>, <<"finalized", "confirmed">>,
    <<"finalized", "finalized">> }

\* C15: hasSufficientConfirmation(status, commitment) is true exactly when
\* the status has no error and its level is at least the commitment.
C15_SufficientIffLevelMeetsCommitment ==
  fnPc = "hasSufficientConfirmation" =>
    (fnOut <=>
       /\ fnArgs.status # Null
       /\ fnArgs.status.err = None
       /\ <<ReportedLevel(fnArgs.status), fnArgs.commitment>> \in LevelMeetsCommitment)

C15_Witness ==
  /\ fnPc = "hasSufficientConfirmation"
  /\ fnArgs.status # Null
  /\ fnArgs.status.confirmationStatus = "finalized"
  /\ fnArgs.status.err = None
  /\ fnArgs.commitment = "finalized"
  /\ fnOut = TRUE

\* C16: once a polled status carried an on-chain error, the polling has
\* returned false, the call has thrown and is over (no later poll), also
\* when that status reported confirmationStatus finalized.
C16_OnChainErrorIsDefinitive ==
  \A id \in Ids :
    sub[id].errStatus # Null =>
      /\ sub[id].polled = "false"
      /\ pc[id] = "returned"
      /\ sub[id].outcome # Null
      /\ sub[id].outcome.kind = "thrown"
      /\ sub[id].outcome.at = "send"

C16_Witness ==
  \E id \in Ids :
    /\ sub[id].errStatus # Null
    /\ sub[id].errStatus.confirmationStatus = "finalized"
    /\ sub[id].commitment = "processed"
    /\ sub[id].queries = 2
    /\ sub[id].polled = "false"

\* What holds of the polling loop at every moment: the queries that threw
\* are among the at most 5 queries; the loop gives up without an errored
\* status only after 5 queries and 5 delays; and whenever it returned false
\* the call threw the enhanced send error, never the error of a query.
PollingNeverThrows ==
  \A id \in Ids :
    /\ sub[id].thrownQueries <= sub[id].queries
    /\ sub[id].queries <= DEFAULT_MAX_ATTEMPTS
    /\ (sub[id].polled = "false" /\ sub[id].errStatus = Null) =>
         /\ sub[id].queries = DEFAULT_MAX_ATTEMPTS
         /\ Len(sub[id].delays) = DEFAULT_MAX_ATTEMPTS
    /\ sub[id].polled = "false" =>
         sub[id].outcome = Thrown(enhanceSendError(sub[id].sendError), "send")
    /\ (sub[id].queries >= 1 /\ sub[id].outcome # Null /\ sub[id].outcome.kind = "thrown") =>
         sub[id].polled = "false"

\* C17: confirmTransactionAfterSendFailure never throws and always ends: a
\* throwing query counts as one of the 5 attempts, 5 attempts without a
\* sufficient confirmation give false and the call throws the enhanced send
\* error, and whenever calls are polling there comes a moment when none is
\* (a call leaves the loop only by returning or throwing).
C17_PollingTerminatesWithoutThrowing ==
  /\ []PollingNeverThrows
  /\ (\E id \in Ids : pc[id] \in {"poll", "wait"})
       ~> (\A id \in Ids : pc[id] \in {"unstaged", "returned"})

C17_Witness ==
  \E id \in Ids :
    /\ sub[id].thrownQueries = DEFAULT_MAX_ATTEMPTS
    /\ sub[id].queries = DEFAULT_MAX_ATTEMPTS
    /\ sub[id].polled = "false"
    /\ pc[id] = "returned"
    /\ sub[id].outcome = Thrown(enhanceSendError(sub[id].sendError), "send")

InList(id) == \E k \in 1..Len(entries) : entries[k] = id

\* convertEntry ran to its last line or was stopped by finalizeWithError.
PipelineEnded(id) == pc[id] \in {"done", "aborted"}

\* C18 as stated: an entry whose pipeline has ended, with whatever outcome, is
\* not in the live list.
C18_EndedEntriesLeaveTheList ==
  \A id \in Ids : PipelineEnded(id) => ~InList(id)

\* C18: an entry whose pipeline ran to the end of convertEntry (transaction
\* confirmed, cancelled or failed) is not in the live list, an entry that has
\* left the list never reappears in it, and an entry stopped by
\* finalizeWithError leaves the list only through clearEntry or clearAll.
C18_RemovedEntriesStayRemoved ==
  /\ [](\A id \in Ids : pc[id] = "done" => ~InList(id))
  /\ [][\A id \in Ids : (pc[id] # "unstaged" /\ ~InList(id)) => ~InList(id)']_vars
  /\ [][\A id \in Ids :
         (pc[id] = "aborted" /\ InList(id) /\ ~InList(id)') =>
           entries' \in {<<>>, RemoveEntry(entries, id)}]_vars

C18_Witness ==
  \E a, b \in Ids :
    /\ pc[a] = "aborted" /\ InList(a) /\ cur[a].status = "error"
    /\ pc[b] = "done" /\ ~InList(b) /\ ~clearedInFlight[b]
    /\ cur[b].transactionStatus \in {"confirmed", "cancelled", "error"}

\* The record convertEntry leaves for pipeline id when only its own inputs
\* (id, file, staged version, wallet at staging) and the outcomes of its own
\* awaits (digest, submitNotarizationTransaction) are used.
OwnFinalRecord(id, digestOutcome) ==
  LET staged == NewEntry(id, [accepted |-> TRUE, content |-> cur[id].file], cur[id].version)
      converting == Merge([staged EXCEPT !.version = clampVersion(staged.version)],
                          [ status |-> "converting", progress |-> INITIAL_PROGRESS,
                            notaryAddress |-> cur[id].notaryAddress ])
      hash == arrayBufferToHex(Sha256Of(staged.file))
      digested == IF digestOutcome = "ok"
                  THEN Merge(converting, [checksum |-> Sha1Of(staged.file), binHash |-> hash])
                  ELSE converting
      pending == Merge(digested, [ status |-> "success", progress |-> FULL_PROGRESS,
                                   transactionStatus |-> "pending" ])
  IN IF digested.binHash = NullStr
     THEN Merge(pending, [ transactionStatus |-> "error",
                           transactionError |-> <<MsgHashUnavailable>> ])
     ELSE IF sub[id].outcome = Null THEN pending
     ELSE Merge(pending, AfterSubmitUpdates(sub[id].outcome))

\* A step in which pipeline a moves leaves everything of pipeline b as it was.
StepLeavesOtherAlone(a, b) ==
  (pc[a] # "unstaged" /\ pc[b] # "unstaged"
     /\ (pc[a]' # pc[a] \/ cur[a]' # cur[a] \/ sub[a]' # sub[a])) =>
    /\ cur[b]' = cur[b]
    /\ pc[b]' = pc[b]
    /\ sub[b]' = sub[b]
    /\ txTrace[b]' = txTrace[b]
    /\ confirmedCalls[b]' = confirmedCalls[b]
    /\ InList(b)' = InList(b)
    /\ (\E k \in 1..Len(completedDocuments) : completedDocuments[k] = b) =>
         (\E k \in 1..Len(completedDocuments') : completedDocuments'[k] = b)

EndsWithOwnRecord ==
  \A id \in Ids :
    pc[id] = "done" =>
      \E digestOutcome \in DigestOutcomes : cur[id] = OwnFinalRecord(id, digestOutcome)

\* C19: with two pipelines running at once, no step of one changes the
\* record, the list membership or the transaction state of the other, and
\* the record a pipeline ends with is the one its own inputs and its own
\* outcomes give, whatever the other pipeline did.
C19_PipelinesAreIsolated ==
  /\ [][\A a, b \in Ids : a # b => StepLeavesOtherAlone(a, b)]_vars
  /\ []EndsWithOwnRecord

C19_Witness ==
  \E a, b \in Ids :
    /\ a # b
    /\ pc[a] = "done" /\ pc[b] = "done"
    /\ cur[a].transactionStatus = "confirmed"
    /\ cur[b].transactionStatus = "error"
    /\ cur[a].file = cur[b].file

\* convertEntry is over for the entry and its record tells how it ended.
ReachedOutcome(id) ==
  /\ PipelineEnded(id)
  /\ cur[id].status \in {"success", "error"}
  /\ cur[id].transactionStatus \in {"confirmed", "cancelled", "error"}

\* C20: clearing an entry while its pipeline is in flight changes nothing of
\* the pipeline, which goes on to the end of convertEntry (or to an error that
\* ends it), and from then on no update of the pipeline puts the entry back
\* into the live list.
C20_ClearedPipelineRunsOn ==
  /\ [](\A id \in Ids : clearedInFlight[id] => ~InList(id))
  /\ [][\A id \in Ids :
         (~clearedInFlight[id] /\ clearedInFlight[id]') =>
           (pc' = pc /\ cur' = cur /\ sub' = sub /\ txTrace' = txTrace)]_vars
  /\ \A id \in Ids : (clearedInFlight[id] /\ InFlight(id)) ~> ReachedOutcome(id)

C20_Witness ==
  \E id \in Ids :
    /\ clearedInFlight[id]
    /\ pc[id] = "done"
    /\ cur[id].transactionStatus = "confirmed"
    /\ confirmedCalls[id] = 1
    /\ \E k \in 1..Len(completedDocuments) : completedDocuments[k] = id
    /\ ~InList(id)

\* The value of the four bytes of data that start after `offset` bytes, read
\* least significant byte first.
ReadUint32LE(data, offset) ==
  data[offset + 1] + data[offset + 2] * 256 + data[offset + 3] * 256 * 256
    + data[offset + 4] * 256 * 256 * 256

Slice(data, from, to) == SubSeq(data, from + 1, to)

CreateCalled == fnPc = "getCreateNotarizationInstruction" /\ fnOut.ok
UpdateCalled == fnPc = "getUpdateNotarizationInstruction" /\ fnOut.ok

\* The create payload: discriminator, hash, length-prefixed name, and the
\* bytes of hashVersion and version; the name is the trimmed documentName,
\* or "Untitled Document" when that is empty.
CreatePayloadLayout ==
  CreateCalled =>
    LET data == fnOut.value
        trimmed == Trim(fnArgs.documentName)
        name == TextEncode(IF trimmed = <<>> THEN UntitledDocument ELSE trimmed)
        n == Len(name)
    IN /\ Len(data) = 46 + n
       /\ Slice(data, 0, 8) = CREATE_NOTARIZATION_DISCRIMINATOR
       /\ Slice(data, 8, 40) = fnArgs.documentHash
       /\ ReadUint32LE(data, 40) = n
       /\ Slice(data, 44, 44 + n) = name
       /\ data[45 + n] = ToUint8(fnArgs.hashVersion)
       /\ data[46 + n] = ToUint8(fnArgs.version)
       /\ IsU8(fnArgs.hashVersion) => Num(data[45 + n]) = fnArgs.hashVersion
       /\ IsU8(fnArgs.version) => Num(data[46 + n]) = fnArgs.version

UpdatePayloadFrame ==
  UpdateCalled =>
    /\ Len(fnOut.value) = 75
    /\ Slice(fnOut.value, 0, 8) = UPDATE_NOTARIZATION_DISCRIMINATOR
    /\ UPDATE_NOTARIZATION_DISCRIMINATOR # CREATE_NOTARIZATION_DISCRIMINATOR

\* C21 as stated: in the update payload the two hashes follow the
\* discriminator and the three bytes oldVersion, newVersion, hashVersion
\* follow the hashes.
C21_UpdateHashesThenBytes ==
  /\ CreatePayloadLayout
  /\ UpdatePayloadFrame
  /\ UpdateCalled =>
       /\ Slice(fnOut.value, 8, 72) = fnArgs.oldDocumentHash \o fnArgs.newDocumentHash
       /\ Slice(fnOut.value, 72, 75) =
            <<IntOf(fnArgs.oldVersion), IntOf(fnArgs.newVersion), IntOf(fnArgs.hashVersion)>>

\* C21: the create payload is discriminator(8), hash(32), the little-endian
\* u32 byte length of the UTF-8 name, the name bytes, the hashVersion byte and
\* the version byte (46 + name length bytes); the update payload is another
\* discriminator(8), the old hash(32), the oldVersion byte, the new hash(32),
\* the newVersion byte and the hashVersion byte (75 bytes).
C21_PayloadLayouts ==
  /\ CreatePayloadLayout
  /\ UpdatePayloadFrame
  /\ UpdateCalled =>
       /\ Slice(fnOut.value, 8, 40) = fnArgs.oldDocumentHash
       /\ fnOut.value[41] = IntOf(fnArgs.oldVersion)
       /\ Slice(fnOut.value, 41, 73) = fnArgs.newDocumentHash
       /\ fnOut.value[74] = IntOf(fnArgs.newVersion)
       /\ fnOut.value[75] = IntOf(fnArgs.hashVersion)

C21_Witness ==
  /\ UpdateCalled
  /\ fnArgs.oldDocumentHash # fnArgs.newDocumentHash
  /\ fnArgs.oldVersion = Num(7) /\ fnArgs.newVersion = Num(255)
  /\ fnOut.value[41] = 7

DecodeCalled == fnPc = "decodeNotarizationAccount"

\* The account data holds every field up to and including the name.
HoldsFieldsThroughName(data) ==
  /\ Len(data) >= 85
  /\ Len(data) >= 85 + ReadUint32LE(data, 81)

\* C22: decodeNotarizationAccount reads the hash from bytes [8,40), the notary
\* from [40,72), the timestamp as a little-endian 64-bit integer from [72,80),
\* the version from byte 80, the name length n as a little-endian u32 from
\* [81,85), the name (decoded and trimmed) from [85,85+n), then bump,
\* hashVersion and additional (0 when the byte is absent); data too short to
\* hold a field up to and including the name gives an error and no record.
C22_DecodeLayout ==
  DecodeCalled =>
    LET data == fnArgs.data
        n == ReadUint32LE(data, 81)
    IN /\ fnOut.ok <=> HoldsFieldsThroughName(data)
       /\ ~fnOut.ok => DOMAIN fnOut = {"ok", "error"}
       /\ fnOut.ok =>
            /\ fnOut.value.hash = arrayBufferToHex(Slice(data, 8, 40))
            /\ fnOut.value.notary = AddressDecode(Slice(data, 40, 72))
            /\ fnOut.value.timestamp = Num(GetBigInt64LE(Slice(data, 72, 80)))
            /\ fnOut.value.version = Num(data[81])
            /\ fnOut.value.documentName = Trim(TextDecode(Slice(data, 85, 85 + n)))
            /\ fnOut.value.bump = Num(IF Len(data) >= 86 + n THEN data[86 + n] ELSE 0)
            /\ fnOut.value.hashVersion = Num(IF Len(data) >= 87 + n THEN data[87 + n] ELSE 0)
            /\ fnOut.value.additional = Num(IF Len(data) >= 88 + n THEN data[88 + n] ELSE 0)

C22_Witness ==
  /\ DecodeCalled
  /\ fnOut.ok
  /\ Len(fnArgs.data) = 92
  /\ fnOut.value.timestamp = Num(66051)
  /\ fnOut.value.version = Num(255)
  /\ fnOut.value.documentName = <<"a", EAcute>>
  /\ fnOut.value.bump = Num(254)
  /\ fnOut.value.hashVersion = Num(1)
  /\ fnOut.value.additional = Num(9)

ExtractCalled == fnPc = "extractCustomProgramErrorCode"

\* The text "custom program error: " followed by `mark` and at least one
\* character of `digits` stands at position i of the message.
LiteralPatternAt(message, i, mark, digits) ==
  LET head == CustomProgramErrorText \o <<" ">> \o mark
      last == i + Len(head) - 1
  IN /\ last + 1 <= Len(message)
     /\ SubSeq(message, i, last) = head
     /\ message[last + 1] \in digits

CodeTextAfter(message, i, mark) ==
  SubSeq(message, i + Len(CustomProgramErrorText) + 1 + Len(mark), Len(message))

\* C23: a message that contains "custom program error: 0x<hex>" gives the
\* hexadecimal value and one that contains "custom program error: #<decimal>"
\* the decimal value (of the first code in the message), so "custom program
\* error: 0x1" gives 1; a message in which the words "custom program error:"
\* are nowhere followed by a code (letter case and the number of spaces
\* before the code set aside) gives null, and so does no message.
C23_ExtractsCustomProgramErrorCode ==
  ExtractCalled =>
    LET message == fnArgs.message
        literalAt(i) == \/ LiteralPatternAt(message, i, <<"0", "x">>, LowerHexChars)
                        \/ LiteralPatternAt(message, i, <<"#">>, Digits)
        firstAt(i) == literalAt(i)
                        /\ \A j \in 1..(i - 1) : ~MatchCustomProgramErrorAt(message, j).matched
    IN /\ message = CustomProgramErrorText \o <<" ", "0", "x", "1">> => fnOut = Num(1)
       /\ \A i \in 1..Len(message) :
            /\ (firstAt(i) /\ LiteralPatternAt(message, i, <<"0", "x">>, LowerHexChars)) =>
                 fnOut = Num(HexPrefixValue(CodeTextAfter(message, i, <<"0", "x">>), 0))
            /\ (firstAt(i) /\ LiteralPatternAt(message, i, <<"#">>, Digits)) =>
                 fnOut = Num(DigitPrefixValue(CodeTextAfter(message, i, <<"#">>), 0))
            /\ literalAt(i) => fnOut # Null
       /\ (message = NullStr
             \/ \A i \in 1..Len(message) : ~MatchCustomProgramErrorAt(message, i).matched)
            => fnOut = Null

C23_Witness ==
  /\ ExtractCalled
  /\ fnArgs.message = <<"a", " ">> \o CustomProgramErrorText \o <<" ", "0", "x", "1", "f", " ", "b">>
  /\ fnOut = Num(31)

DefaultCalls == {i \in 1..Len(clientCalls) : clientCalls[i].urlOrMoniker = DEFAULT_CLUSTER}
OtherCalls == {i \in 1..Len(clientCalls) : clientCalls[i].urlOrMoniker # DEFAULT_CLUSTER}

\* A call with another endpoint gets a client of its own and leaves the
\* memoized client alone.
OtherEndpointsAreSeparate ==
  /\ \A i \in OtherCalls : \A j \in DefaultCalls : clientCalls[i].client # clientCalls[j].client
  /\ cachedClient # 0 => \E j \in DefaultCalls : clientCalls[j].client = cachedClient

\* C24: every call of getSolanaClient with the default cluster returns the
\* same memoized client, and a call with another endpoint returns a separate
\* client and never replaces the memoized one.
C24_DefaultClientIsMemoized ==
  /\ \A i, j \in DefaultCalls : clientCalls[i].client = clientCalls[j].client
  /\ OtherEndpointsAreSeparate

FormatCalled == fnPc = "formatVersion"

\* C25: formatVersion gives, for a stored version v in 0..255, the decimal
\* text of v + 1 (digits only, no leading zero, of value v + 1), and "Not set"
\* for null.
C25_FormatVersionAddsOne ==
  FormatCalled =>
    /\ fnArgs.value = Null => fnOut = MsgNotSet
    /\ (fnArgs.value # Null /\ IsU8(fnArgs.value)) =>
         /\ fnOut # <<>>
         /\ \A i \in 1..Len(fnOut) : fnOut[i] \in Digits
         /\ fnOut[1] # "0"
         /\ DigitPrefixValue(fnOut, 0) = IntOf(fnArgs.value) + 1

C25_Witness ==
  /\ FormatCalled
  /\ fnArgs.value = Num(MAX_VERSION)
  /\ fnOut = <<"2", "5", "6">>


\* ------------------------------------------------------------------ C26
\* The entry of pipeline id exists (it was staged by an upload).
Staged(id) == pc[id] # "unstaged"

\* C26: in every reachable state of an upload entry, transactionHash is set
\* exactly when transactionStatus is "confirmed", and an entry whose
\* transactionStatus is "cancelled" or "error" has neither a transaction hash
\* nor an explorer URL.
C26_HashIffConfirmed ==
  \A id \in Ids :
    Staged(id) =>
      /\ (cur[id].transactionHash # None) <=> (cur[id].transactionStatus = "confirmed")
      /\ cur[id].transactionStatus \in {"cancelled", "error"} =>
           /\ cur[id].transactionHash = None
           /\ cur[id].transactionUrl = None

\* Of two finished pipelines one ended confirmed with its hash, the other
\* cancelled or failed without one.
C26_Witness ==
  \E id, other \in Ids :
    /\ pc[id] = "done" /\ pc[other] = "done"
    /\ cur[id].transactionStatus = "confirmed" /\ cur[id].transactionHash # None
    /\ cur[other].transactionStatus = "cancelled" /\ cur[other].transactionHash = None


\* ------------------------------------------------------------------ C27
\* C27: the completed documents handed to onDocumentsChange (the list
\* completedDocuments in another order) hold at most one record per id.
C27_OneRecordPerId ==
  \A j, k \in 1..Len(completedDocuments) :
    j # k => CompletedDocuments[j].id # CompletedDocuments[k].id


\* ------------------------------------------------------------------ C28
\* convertEntry ran to its last line with the transaction confirmed.
EndedConfirmed(id) == pc[id] = "done" /\ cur[id].transactionStatus = "confirmed"

ExtractorCalled ==
  fnPc \in {"extractSimulationMessage", "extractSimulationLogs", "extractSimulationErrorDetails"}

\* C29: the message, details and log extractors return on every error object
\* graph, graphs with cycles through cause, value, data or transactionError
\* included.
C29_ExtractorsTerminate ==
  ExtractorCalled => ~fnOut.diverged

\* The details and log extractors, which put every object into the visited
\* set before they descend, return on every graph.
DetailsAndLogsTerminate ==
  fnPc \in {"extractSimulationLogs", "extractSimulationErrorDetails"} => ~fnOut.diverged

\* The message extractor does not return for an Error whose cause is itself.
MessageOfSelfCausedErrorDiverges ==
  (/\ fnPc = "extractSimulationMessage"
   /\ fnArgs.graph[1].kind = "Error" /\ fnArgs.graph[1].cause = 1
   /\ fnArgs.graph[1].transactionError = Absent) => fnOut.diverged


\* ------------------------------------------------------------------ C30
\* This step settles the disconnect() call c.
SettlesDisconnect(c) ==
  /\ walletCalls'[c].kind = "disconnect"
  /\ walletCalls[c].at # "settled"
  /\ walletCalls'[c].at = "settled"

\* isConnecting is false whenever no connect() call awaits the provider.
IdleMeansNotConnecting ==
  ~ConnectAwaiting(walletCalls) => ~walletState.isConnecting

\* C30 as stated: when a disconnect() call settles and no connect() call is
\* in flight at that moment, address is null and connectError is cleared;
\* and isConnecting is false whenever no connect() call awaits the provider.
C30_SettledDisconnectClears ==
  /\ [][\A c \in WalletCallIds :
          (SettlesDisconnect(c) /\ ~ConnectAwaiting(walletCalls')) =>
            /\ walletState'.address = NullStr
            /\ walletState'.connectError = NullStr]_vars
  /\ []IdleMeansNotConnecting

\* C30 amended: when a disconnect() call settles and no connect() call was in
\* flight at any moment between its start and its settling, address is null
\* and connectError is cleared, whether the provider's disconnect resolved or
\* rejected; and isConnecting is false whenever no connect() call awaits the
\* provider.
C30_UndisturbedDisconnectClears ==
  /\ [][\A c \in WalletCallIds :
          (SettlesDisconnect(c) /\ ~walletCalls'[c].overlapped) =>
            /\ walletState'.address = NullStr
            /\ walletState'.connectError = NullStr]_vars
  /\ []IdleMeansNotConnecting

\* A connect() was answered by the provider and a later disconnect(), which
\* no connect() overlapped, has settled: no address, no error, not connecting.
C30_Witness ==
  \E c, d \in WalletCallIds :
    /\ walletState.provider
    /\ walletCalls[c].kind = "connect" /\ walletCalls[c].at = "settled"
    /\ walletCalls[d].kind = "disconnect" /\ walletCalls[d].at = "settled"
    /\ ~walletCalls[d].overlapped
    /\ \A e \in WalletCallIds : walletCalls[e].kind # "none" => e \in {c, d}
    /\ walletState.address = NullStr
    /\ walletState.connectError = NullStr
    /\ ~walletState.isConnecting

====
